---- MODULE Spec2Model ----
(***************************************************************************)
(* The warp gateway of namada-api (src/src/main.rs) in front of the        *)
(* Namada RPC client (src/src/client.rs).  A request walks the composed    *)
(* route table; the handler of a matching route runs from one chain call   *)
(* (suspension point) to the next, while the chain may move to the next    *)
(* epoch between two calls.                                                *)
(***************************************************************************)
EXTENDS Integers, Sequences, FiniteSets, TLC

VARIABLES
    chainEpoch,   \* the chain's current epoch
    chainVals,    \* epoch -> validator set of that epoch (decided up to chainEpoch)
    rq,           \* request slot -> the request and the state of its handling
    app_state     \* the AppState every handler is handed an Arc of

vars == <<chainEpoch, chainVals, rq, app_state>>

(*************************** bounds of the model ***************************)
NumAddrs == 3          \* chain addresses that exist
MaxEpoch == 1          \* the chain runs through epochs 0..MaxEpoch
MaxPage == 3           \* page parameters 0..MaxPage
MaxSmallPerPage == 2   \* per_page parameters 0..MaxSmallPerPage, plus the limit
MaxTmLen == 41         \* consensus-address inputs of 0..MaxTmLen characters
MaxRejections == 2     \* rejections combined in one recovered Rejection
LargePage == 85899347  \* the largest page parameter sent: (LargePage - 1) * 50 >= 2^32

(**************************** program constants ****************************)
MaxPerPage == 50
DefaultPage == 1
DefaultPerPage == 10
TmAddrLen == 40

(******************************** Option ***********************************)
None == <<>>
Some(x) == <<x>>
IsSome(o) == Len(o) = 1
Unwrap(o) == o[1]
UnwrapOr(o, d) == IF IsSome(o) THEN o[1] ELSE d

Min(a, b) == IF a <= b THEN a ELSE b

\* u32 arithmetic.  A product a * b is formed from the two 16-bit halves of a,
\* so that no intermediate value leaves the range of the tool's integers: it
\* overflows u32 when what lies above the low 32 bits is not 0, and wraps to
\* its low 32 bits.
mul_low_half(a, b) == (a % (2 ^ 16)) * b
mul_high_half(a, b) ==
    ((a \div (2 ^ 16)) * b) + (mul_low_half(a, b) \div (2 ^ 16))
mul_overflows_u32(a, b) == mul_high_half(a, b) \div (2 ^ 16) > 0
wrapping_mul_u32(a, b) ==
    ((mul_high_half(a, b) % (2 ^ 16)) * (2 ^ 16)) + (mul_low_half(a, b) % (2 ^ 16))

\* A usize as its offset n from 0, or from 2^64 when a subtraction has wrapped
\* (n < 0 then): the value is n, or 2^64 + n.
USizeVal(wrapped, n) == [wrapped |-> wrapped, n |-> n]
sub_overflows_usize(a, b) == a < b
wrapping_sub_usize(a, b) == USizeVal(a < b, a - b)
usize_positive(v) == v.wrapped \/ v.n > 0
usize_pred(v) == USizeVal(v.wrapped, v.n - 1)

\* format!(text, args...): the text with the values that fill its {} places
Msg(text, args) == [text |-> text, args |-> args]

(****************************** addresses **********************************)
AddrNames == <<"tnam1qa", "tnam1qb", "tnam1qc", "tnam1qd", "tnam1qe">>
Addrs == {AddrNames[i] : i \in 1..NumAddrs}
Idx(a) == CHOOSE i \in 1..Len(AddrNames) : AddrNames[i] = a

\* Address::from_str: Ok for the encodings of chain addresses, Err otherwise
AddressFromStr(s) ==
    IF s \in Addrs THEN [ok |-> TRUE, address |-> s]
    ELSE [ok |-> FALSE, address |-> ""]

(************************* consensus addresses *****************************)
HexDigits == <<"0", "1", "2", "3", "4", "5", "6", "7", "8", "9",
               "a", "b", "c", "d", "e", "f", "A", "B", "C", "D", "E", "F">>
OtherChars == <<"g", "G", "-", "x", "U+00E9">>

\* u8 length of the UTF-8 encoding of a character
Utf8Len(c) == IF c = "U+00E9" THEN 2 ELSE 1

\* char::is_ascii_hexdigit
is_ascii_hexdigit(c) == \E i \in 1..Len(HexDigits) : HexDigits[i] = c

RECURSIVE ByteLen(_)
\* String::len: the length in bytes
ByteLen(s) == IF s = <<>> THEN 0 ELSE Utf8Len(Head(s)) + ByteLen(Tail(s))

\* the hex digits cycled from offset k, n characters long
HexRun(n, k) == [i \in 1..n |-> HexDigits[((i + k) % Len(HexDigits)) + 1]]

\* the consensus address the chain's index holds for validator a
TmOf(a) == HexRun(TmAddrLen, 5 * Idx(a))

(***************************************************************************)
(* The Namada node behind the RPC client.  What it holds for an address    *)
(* and an epoch is fixed; which epoch is current, and who is in the        *)
(* validator set of a new epoch, is what changes.                          *)
(***************************************************************************)
ValidatorStates == <<"Consensus", "BelowCapacity", "BelowThreshold", "Inactive", "Jailed">>

\* ValidatorStateInfo.0 of address a at epoch e: None outside the validator set
ChainState(a, e) ==
    IF a \in chainVals[e]
    THEN Some(ValidatorStates[((Idx(a) + e) % Len(ValidatorStates)) + 1])
    ELSE None

\* bonded stake of a at epoch e
ChainStake(a, e) == IF a \in chainVals[e] THEN 1000 * Idx(a) + e ELSE 0

\* ValidatorMetaData of a at epoch e: some validators have none
ChainMetadata(a, e) ==
    IF (Idx(a) + e) % 2 = 0 THEN None
    ELSE Some([email |-> "ops@example.com", description |-> None,
               website |-> Some("https://example.com"), discord_handle |-> None])

\* CommissionPair of a at epoch e: either part may be absent
ChainCommission(a, e) ==
    [commission_rate |->
        IF (Idx(a) + e) % 3 = 0 THEN None ELSE Some("0.05"),
     max_commission_change_per_epoch |->
        IF (Idx(a) + 2 * e) % 3 = 1 THEN None ELSE Some("0.01")]

\* every order a HashSet<Address> of the members of S can iterate in
Orders(S) ==
    {f \in [1..Cardinality(S) -> S] :
        \A i, j \in 1..Cardinality(S) : i # j => f[i] # f[j]}

\* the address the chain's raw-hash index holds for a consensus address: an
\* entry is written when a validator joins, and stays when it leaves the set
Indexed == {a \in Addrs : \E e \in 0..chainEpoch : a \in chainVals[e]}
ChainValidatorByTmAddr(tm) ==
    IF \E a \in Indexed : TmOf(a) = tm
    THEN Some(CHOOSE a \in Indexed : TmOf(a) = tm)
    ELSE None

\* the validator that joins or leaves when epoch e ends
Mover(e) == AddrNames[(e % NumAddrs) + 1]

\* The chain moves to the next epoch; one validator may join or leave.
AdvanceEpoch ==
    /\ chainEpoch < MaxEpoch
    /\ chainEpoch' = chainEpoch + 1
    /\ \E S \in {chainVals[chainEpoch],
                 (chainVals[chainEpoch] \ {Mover(chainEpoch)})
                    \cup ({Mover(chainEpoch)} \ chainVals[chainEpoch])} :
         chainVals' = [chainVals EXCEPT ![chainEpoch + 1] = S]
    /\ UNCHANGED <<rq, app_state>>

(***************************************************************************)
(* Requests.  A request is a method, the segments of its path and its      *)
(* query string; rq[r] also holds how far its handling has come.           *)
(***************************************************************************)
Reqs == {"r1", "r2"}

\* ValidatorsQuery
ValidatorsQuery(page, per_page) == [page |-> page, per_page |-> per_page]

NoLocals ==
    [address |-> "", tm_addr |-> <<>>, epoch |-> 0, validators |-> <<>>,
     page |-> 0, per_page |-> 0, total |-> 0, total_pages |-> 0,
     start |-> 0, end |-> 0, i |-> 0, left |-> USizeVal(FALSE, 0),
     state_info |-> None, state_epoch |-> 0, stake |-> 0, responses |-> <<>>,
     method |-> "", maybe_epoch |-> None]

NoReply == [status |-> 0, body |-> <<>>]

\* Config::load with no command-line override and no environment
Config_load == [rpc_url |-> "http://localhost:26657", port |-> 3000]

\* NamadaClient::new(rpc_url)
NamadaClient_new(rpc_url) == [rpc_client |-> <<"HttpClient", rpc_url>>, rpc_url |-> rpc_url]

\* AppState
AppState(namada_client) == [namada_client |-> namada_client]

\* the closure a client method hands to spawn_blocking: not spawned, running
\* on the blocking pool, or finished with its result; detached once the
\* JoinHandle has been dropped while it was running
NoTask ==
    [op |-> "", arg |-> None, state |-> "none", ok |-> FALSE, res |-> None,
     detached |-> FALSE, calls_before |-> 0]

Idle ==
    [pc |-> "idle", method |-> "", path |-> <<>>, qvalid |-> TRUE,
     query |-> ValidatorsQuery(None, None),
     ri |-> 0, rejs |-> <<>>, outs |-> <<>>, calls |-> <<>>,
     loc |-> NoLocals, reply |-> NoReply, task |-> NoTask]

Request(method, path, qvalid, query) ==
    [Idle EXCEPT !.pc = "route", !.method = method, !.path = path,
                 !.qvalid = qvalid, !.query = query, !.ri = 1]

(***************************************************************************)
(* main: the route table, in the order of the .or() chain.  segs are the   *)
(* warp::path segments, param a warp::path::param, query a warp::query;    *)
(* no route ends with warp::path::end.                                     *)
(***************************************************************************)
Route(name, segs, param, query) ==
    [name |-> name, segs |-> segs, param |-> param, query |-> query]

Routes ==
    << Route("docs", <<"api", "docs">>, FALSE, FALSE),
       Route("health", <<"api", "health", "api_status">>, FALSE, FALSE),
       Route("rpc_health", <<"api", "health", "rpc_status">>, FALSE, FALSE),
       Route("liveness_info", <<"api", "pos", "liveness_info">>, FALSE, FALSE),
       Route("validator_by_tm", <<"api", "pos", "validator_by_tm_addr">>, TRUE, FALSE),
       Route("validator_details", <<"api", "pos", "validators">>, TRUE, FALSE),
       Route("all_validators", <<"api", "pos", "validators">>, FALSE, FALSE),
       Route("validators_details", <<"api", "pos", "validators_details">>, FALSE, TRUE),
       Route("consensus_validator_set",
             <<"api", "pos", "validator_set", "consensus">>, FALSE, FALSE),
       Route("below_capacity_validator_set",
             <<"api", "pos", "validator_set", "below_capacity">>, FALSE, FALSE) >>

RECURSIVE MatchPrefix(_, _, _)
\* warp::path(p) for each segment from the i-th on: the path starts with segs
MatchPrefix(path, segs, i) ==
    \/ i > Len(segs)
    \/ /\ i <= Len(path)
       /\ path[i] = segs[i]
       /\ MatchPrefix(path, segs, i + 1)

\* The filters of one route before its handler: "Ok", or the rejection.
RouteFilter(rt, q) ==
    IF ~MatchPrefix(q.path, rt.segs, 1) THEN "NotFound"
    ELSE IF rt.param /\ Len(q.path) <= Len(rt.segs) THEN "NotFound"
    ELSE IF q.method # "GET" THEN "MethodNotAllowed"
    ELSE IF rt.query /\ ~q.qvalid THEN "InvalidQuery"
    ELSE "Ok"

\* ApiError
ApiError(variant, msg) == [variant |-> variant, msg |-> msg]
NoError == ApiError("", Msg("", <<>>))

\* a warp rejection: NotFound, a known one, or warp::reject::custom(ApiError)
Rejection(kind, err) == [kind |-> kind, err |-> err]

\* Rejection::is_not_found of the combined rejections
is_not_found(rejs) == \A i \in 1..Len(rejs) : rejs[i].kind = "NotFound"

\* Rejection::find::<ApiError> of the combined rejections: Or combines the
\* later rejection on the left, and find searches the left first
find_ApiError(rejs) ==
    LET C == {i \in 1..Len(rejs) : rejs[i].kind = "Custom"}
    IN IF C = {} THEN None
       ELSE Some(rejs[CHOOSE i \in C : \A j \in C : j <= i].err)

\* ErrorResponse with its status
ErrorReply(code, message, details) ==
    [status |-> code, body |-> [error |-> message, details |-> details]]

\* a recovery that answers every rejection alike
internal_error_whatever(rejs) ==
    ErrorReply(500, Msg("Internal Server Error", <<>>), None)

\* handle_rejection
handle_rejection(rejs) ==
    IF is_not_found(rejs)
    THEN ErrorReply(404, Msg("Not Found", <<>>), None)
    ELSE IF IsSome(find_ApiError(rejs))
    THEN LET e == Unwrap(find_ApiError(rejs)) IN
         CASE e.variant = "BadRequest" -> ErrorReply(400, e.msg, None)
           [] e.variant = "NotFound" -> ErrorReply(404, e.msg, None)
           [] e.variant = "QueryError" ->
                ErrorReply(500, Msg("Query error occurred", <<>>), Some(e.msg))
           [] e.variant = "InvalidAddress" ->
                ErrorReply(400, Msg("Invalid address format", <<>>), Some(e.msg))
           [] e.variant = "InvalidPagination" ->
                ErrorReply(400, Msg("Invalid pagination parameters", <<>>), Some(e.msg))
           [] e.variant = "InvalidTendermintAddress" ->
                ErrorReply(400, Msg("Invalid Tendermint address", <<>>), Some(e.msg))
           [] e.variant = "RpcConnectionError" ->
                ErrorReply(503, Msg("RPC connection error", <<>>), Some(e.msg))
           [] e.variant = "InternalError" ->
                ErrorReply(500, Msg("Internal server error", <<>>), Some(e.msg))
    ELSE ErrorReply(500, Msg("Internal Server Error", <<>>), None)

(***************************************************************************)
(* Steps shared by the handlers.                                           *)
(***************************************************************************)
\* one call of the Chain Query Service made by handler h: the query, its
\* address, the epoch argument passed, the epoch it was evaluated at, the
\* chain's epoch at the time of the call, and the answer (None when it failed)
Call(h, op, addr, arg, ev, ok, res) ==
    [h |-> h, op |-> op, addr |-> addr, arg |-> arg, ev |-> ev, at |-> chainEpoch,
     ok |-> ok, res |-> IF ok THEN res ELSE None]

\* ClientError::QueryError(e.to_string()).to_string() of a failed call
ClientErrorText(op) == Msg("RPC query error: {}", <<op>>)

\* the handler of route q.ri returns Err(warp::reject::custom(err)): the Or
\* of the route table goes on with the next route
Rejected(q, err, calls) ==
    [q EXCEPT !.pc = "route", !.ri = q.ri + 1,
              !.rejs = Append(q.rejs, Rejection("Custom", err)),
              !.outs = Append(q.outs, [h |-> Routes[q.ri].name, ok |-> FALSE,
                                       err |-> err, reply |-> NoReply]),
              !.calls = calls]

\* the handler of route q.ri returns Ok(reply): the request is answered
Replied(q, body, calls) ==
    [q EXCEPT !.pc = "done",
              !.reply = [status |-> 200, body |-> body],
              !.outs = Append(q.outs, [h |-> Routes[q.ri].name, ok |-> TRUE,
                                       err |-> NoError,
                                       reply |-> [status |-> 200, body |-> body]]),
              !.calls = calls]

\* the handler goes on to its next chain call
Goto(q, pc, loc, calls) == [q EXCEPT !.pc = pc, !.loc = loc, !.calls = calls]

\* One route of the table is tried: its filters reject, or its handler starts.
TryRoute(r) ==
    /\ rq[r].pc = "route"
    /\ rq[r].ri <= Len(Routes)
    /\ LET q == rq[r]
           f == RouteFilter(Routes[q.ri], q)
       IN rq' = [rq EXCEPT ![r] =
                    IF f = "Ok"
                    THEN [q EXCEPT !.pc = Routes[q.ri].name, !.loc = NoLocals]
                    ELSE [q EXCEPT !.ri = q.ri + 1,
                                   !.rejs = Append(q.rejs, Rejection(f, NoError))]]
    /\ UNCHANGED <<chainEpoch, chainVals, app_state>>

\* .recover(handle_rejection): every route has rejected
Recover(r) ==
    /\ rq[r].pc = "route"
    /\ rq[r].ri > Len(Routes)
    /\ rq' = [rq EXCEPT ![r] =
                [rq[r] EXCEPT !.pc = "done", !.reply = handle_rejection(rq[r].rejs)]]
    /\ UNCHANGED <<chainEpoch, chainVals, app_state>>

(***************************************************************************)
(* NamadaClient: what each method's one RPC query answers, evaluated by    *)
(* the node at the moment of the call.                                     *)
(***************************************************************************)
client_query_epoch == chainEpoch

client_is_validator(address) == address \in chainVals[chainEpoch]

\* (state, epoch): the node reads at the given epoch, at its current one if None
client_get_validator_state(address, epoch) ==
    LET e == UnwrapOr(epoch, chainEpoch) IN <<ChainState(address, e), e>>

client_get_validator_stake(epoch, address) == ChainStake(address, epoch)

client_query_metadata(address, epoch) ==
    LET e == UnwrapOr(epoch, chainEpoch)
    IN <<ChainMetadata(address, e), ChainCommission(address, e)>>

\* set.into_iter().collect() of the HashSet the node's answer decodes to
client_get_all_validators(epoch) == Orders(chainVals[epoch])

client_validator_by_tm_addr(tm_addr) == ChainValidatorByTmAddr(tm_addr)

\* the members of S in the order of their addresses
Sorted(S) ==
    CHOOSE f \in Orders(S) :
        \A i, j \in 1..Cardinality(S) : i < j => Idx(f[i]) < Idx(f[j])

\* LivenessInfo of the current epoch
client_get_liveness_info ==
    [liveness_window_len |-> 100, liveness_threshold |-> "0.9",
     validators |->
        [i \in 1..Cardinality(chainVals[chainEpoch]) |->
            [native_address |-> Sorted(chainVals[chainEpoch])[i],
             comet_address |-> TmOf(Sorted(chainVals[chainEpoch])[i]),
             missed_votes |-> i - 1]]]

\* the BTreeSet<WeightedValidator> of the validators in the given state at epoch
WeightedSet(state, epoch) ==
    LET S == {a \in chainVals[epoch] : ChainState(a, epoch) = Some(state)} IN
    [i \in 1..Cardinality(S) |->
        [address |-> Sorted(S)[i], bonded_stake |-> ChainStake(Sorted(S)[i], epoch)]]

client_get_consensus_validator_set(epoch) == WeightedSet("Consensus", epoch)

client_get_below_capacity_validator_set(epoch) == WeightedSet("BelowCapacity", epoch)

\* ValidatorSetResponse
ValidatorSetResponse(validators) ==
    [validators |->
        [i \in 1..Len(validators) |->
            [address |-> validators[i].address,
             stake |-> ToString(validators[i].bonded_stake)]]]

\* ValidatorDetailsResponse
ValidatorDetailsResponse(address, state_info, stake, metadata, commission) ==
    [address |-> address,
     state |-> IF IsSome(state_info) THEN Unwrap(state_info) ELSE "unknown",
     stake |-> ToString(stake),
     commission_rate |-> UnwrapOr(commission.commission_rate, "0"),
     max_commission_change_per_epoch |->
        UnwrapOr(commission.max_commission_change_per_epoch, "0"),
     metadata |-> metadata]

\* a QueryError that does not say which query failed
query_error_without_cause(op) == ApiError("QueryError", Msg("query failed", <<>>))

QueryError(op) == ApiError("QueryError", ClientErrorText(op))

(***************************************************************************)
(* get_validator_details: GET /api/pos/validators/{address}                *)
(***************************************************************************)
\* Address::from_str(&address)
vd_parse(q) ==
    LET a == AddressFromStr(q.path[Len(Routes[q.ri].segs) + 1]) IN
    IF ~a.ok
    THEN Rejected(q, ApiError("InvalidAddress",
                              Msg("Invalid address format: {}", <<"decode error">>)),
                  q.calls)
    ELSE Goto(q, "vd_is_validator", [q.loc EXCEPT !.address = a.address], q.calls)

\* a handler that goes on whatever is_validator answers
proceed_whatever_is_validator(q, is_validator, calls) ==
    Goto(q, "vd_query_epoch", q.loc, calls)

\* a handler that goes from is_validator to the state query at once
skip_query_epoch(q, is_validator, calls) ==
    IF ~is_validator
    THEN Rejected(q, ApiError("NotFound", Msg("Address {} is not a validator",
                                              <<q.loc.address>>)), calls)
    ELSE Goto(q, "vd_get_validator_state", q.loc, calls)

\* what follows the answer of is_validator
vd_after_is_validator(q, is_validator, calls) ==
    IF ~is_validator
    THEN Rejected(q, ApiError("NotFound", Msg("Address {} is not a validator",
                                              <<q.loc.address>>)), calls)
    ELSE Goto(q, "vd_query_epoch", q.loc, calls)

\* metadata asked for without an epoch: the node answers for its current one
metadata_at_current_epoch(loc) == None

\* the epoch arguments of the three sub-queries
vd_state_epoch(loc) == Some(loc.epoch)
vd_stake_epoch(loc) == loc.state_epoch
vd_metadata_epoch(loc) == Some(loc.state_epoch)

get_validator_details(r) ==
    /\ rq[r].pc = "validator_details"
    /\ rq' = [rq EXCEPT ![r] = vd_parse(rq[r])]
    /\ UNCHANGED <<chainEpoch, chainVals, app_state>>

get_validator_details_is_validator(r) ==
    /\ rq[r].pc = "vd_is_validator"
    /\ \E ok \in BOOLEAN :
        LET q == rq[r]
            calls == Append(q.calls, Call("validator_details", "is_validator",
                                          q.loc.address, None, chainEpoch, ok,
                                          client_is_validator(q.loc.address)))
        IN rq' = [rq EXCEPT ![r] =
                    IF ~ok THEN Rejected(q, QueryError("is_validator"), calls)
                    ELSE vd_after_is_validator(
                            q, client_is_validator(q.loc.address), calls)]
    /\ UNCHANGED <<chainEpoch, chainVals, app_state>>

get_validator_details_query_epoch(r) ==
    /\ rq[r].pc = "vd_query_epoch"
    /\ \E ok \in BOOLEAN :
        LET q == rq[r]
            calls == Append(q.calls, Call("validator_details", "query_epoch",
                                          "", None, chainEpoch, ok,
                                          client_query_epoch))
        IN rq' = [rq EXCEPT ![r] =
                    IF ~ok THEN Rejected(q, QueryError("query_epoch"), calls)
                    ELSE Goto(q, "vd_get_validator_state",
                              [q.loc EXCEPT !.epoch = client_query_epoch], calls)]
    /\ UNCHANGED <<chainEpoch, chainVals, app_state>>

get_validator_details_get_validator_state(r) ==
    /\ rq[r].pc = "vd_get_validator_state"
    /\ \E ok \in BOOLEAN :
        LET q == rq[r]
            arg == vd_state_epoch(q.loc)
            res == client_get_validator_state(q.loc.address, arg)
            calls == Append(q.calls, Call("validator_details", "get_validator_state",
                                          q.loc.address, arg, res[2], ok,
                                          res))
        IN rq' = [rq EXCEPT ![r] =
                    IF ~ok THEN Rejected(q, QueryError("get_validator_state"), calls)
                    ELSE Goto(q, "vd_get_validator_stake",
                              [q.loc EXCEPT !.state_info = res[1],
                                            !.state_epoch = res[2]],
                              calls)]
    /\ UNCHANGED <<chainEpoch, chainVals, app_state>>

get_validator_details_get_validator_stake(r) ==
    /\ rq[r].pc = "vd_get_validator_stake"
    /\ \E ok \in BOOLEAN :
        LET q == rq[r]
            arg == vd_stake_epoch(q.loc)
            calls == Append(q.calls, Call("validator_details", "get_validator_stake",
                                          q.loc.address, Some(arg), arg, ok,
                                          client_get_validator_stake(arg, q.loc.address)))
        IN rq' = [rq EXCEPT ![r] =
                    IF ~ok THEN Rejected(q, QueryError("get_validator_stake"), calls)
                    ELSE Goto(q, "vd_query_metadata",
                              [q.loc EXCEPT !.stake =
                                  client_get_validator_stake(arg, q.loc.address)],
                              calls)]
    /\ UNCHANGED <<chainEpoch, chainVals, app_state>>

get_validator_details_query_metadata(r) ==
    /\ rq[r].pc = "vd_query_metadata"
    /\ \E ok \in BOOLEAN :
        LET q == rq[r]
            arg == vd_metadata_epoch(q.loc)
            res == client_query_metadata(q.loc.address, arg)
            calls == Append(q.calls, Call("validator_details", "query_metadata",
                                          q.loc.address, arg,
                                          UnwrapOr(arg, chainEpoch), ok,
                                          res))
        IN rq' = [rq EXCEPT ![r] =
                    IF ~ok THEN Rejected(q, QueryError("query_metadata"), calls)
                    ELSE Replied(q, ValidatorDetailsResponse(
                                        q.loc.address, q.loc.state_info, q.loc.stake,
                                        res[1], res[2]), calls)]
    /\ UNCHANGED <<chainEpoch, chainVals, app_state>>

(***************************************************************************)
(* get_all_validators: GET /api/pos/validators                             *)
(***************************************************************************)
get_all_validators_query_epoch(r) ==
    /\ rq[r].pc = "all_validators"
    /\ \E ok \in BOOLEAN :
        LET q == rq[r]
            calls == Append(q.calls, Call("all_validators", "query_epoch",
                                          "", None, chainEpoch, ok,
                                          client_query_epoch))
        IN rq' = [rq EXCEPT ![r] =
                    IF ~ok THEN Rejected(q, QueryError("query_epoch"), calls)
                    ELSE Goto(q, "av_get_all_validators",
                              [q.loc EXCEPT !.epoch = client_query_epoch], calls)]
    /\ UNCHANGED <<chainEpoch, chainVals, app_state>>

get_all_validators_get_all_validators(r) ==
    /\ rq[r].pc = "av_get_all_validators"
    /\ \E ok \in BOOLEAN :
        \E validators \in client_get_all_validators(rq[r].loc.epoch) :
        LET q == rq[r]
            calls == Append(q.calls, Call("all_validators", "get_all_validators",
                                          "", Some(q.loc.epoch), q.loc.epoch, ok,
                                          validators))
        IN rq' = [rq EXCEPT ![r] =
                    IF ~ok THEN Rejected(q, QueryError("get_all_validators"), calls)
                    ELSE Replied(q, [validators |-> validators], calls)]
    /\ UNCHANGED <<chainEpoch, chainVals, app_state>>

(***************************************************************************)
(* get_validators_details: GET /api/pos/validators_details?page=&per_page= *)
(***************************************************************************)
\* a validation that looks at per_page before page
validate_per_page_first(query) ==
    IF IsSome(query.per_page) /\ Unwrap(query.per_page) = 0
    THEN Some(ApiError("InvalidPagination",
                       Msg("Items per page must be greater than 0", <<>>)))
    ELSE IF IsSome(query.per_page) /\ Unwrap(query.per_page) > MaxPerPage
    THEN Some(ApiError("InvalidPagination",
                       Msg("Items per page cannot exceed 50", <<>>)))
    ELSE IF IsSome(query.page) /\ Unwrap(query.page) = 0
    THEN Some(ApiError("InvalidPagination",
                       Msg("Page number must be greater than 0", <<>>)))
    ELSE None

\* ValidatorsQuery::validate: None for Ok(()), or the error
ValidatorsQuery_validate(query) ==
    IF IsSome(query.page) /\ Unwrap(query.page) = 0
    THEN Some(ApiError("InvalidPagination",
                       Msg("Page number must be greater than 0", <<>>)))
    ELSE IF IsSome(query.per_page) /\ Unwrap(query.per_page) = 0
    THEN Some(ApiError("InvalidPagination",
                       Msg("Items per page must be greater than 0", <<>>)))
    ELSE IF IsSome(query.per_page) /\ Unwrap(query.per_page) > MaxPerPage
    THEN Some(ApiError("InvalidPagination",
                       Msg("Items per page cannot exceed 50", <<>>)))
    ELSE None

\* query.validate()?, then the defaults of page and per_page
vsd_validate(q) ==
    LET v == ValidatorsQuery_validate(q.query) IN
    IF IsSome(v) THEN Rejected(q, Unwrap(v), q.calls)
    ELSE Goto(q, "vsd_query_epoch",
              [q.loc EXCEPT !.page = UnwrapOr(q.query.page, DefaultPage),
                            !.per_page = UnwrapOr(q.query.per_page, DefaultPerPage)],
              q.calls)

\* the quotient rounded down
floor_pages(total, per_page) == total \div per_page

\* (total as f64 / per_page as f64).ceil() as u32: the quotient rounded up (the
\* f64 division is exact for the totals a Vec can hold here, and the cast
\* saturates only above u32::MAX)
total_pages(total, per_page) ==
    LET whole == total \div per_page
        up == IF whole * per_page = total THEN whole ELSE whole + 1
    IN up

\* the head of the for loop over validators.into_iter().skip(start).take(end - start)
vsd_next(q, loc, calls) ==
    IF usize_positive(loc.left) /\ loc.i <= Len(loc.validators)
    THEN Goto(q, "vsd_get_validator_state",
              [loc EXCEPT !.address = loc.validators[loc.i]], calls)
    ELSE Replied(q, [validators |-> loc.responses,
                     pagination |-> [total |-> loc.total, page |-> loc.page,
                                     per_page |-> loc.per_page,
                                     total_pages |-> loc.total_pages]], calls)

\* a page check that lets the page after the last one through
page_exceeds_by_two(page, pages) == page > pages + 1 /\ pages > 0

\* a page start counted from page, not from page - 1
start_after_page(page, per_page) == wrapping_mul_u32(page, per_page)

\* the page is rejected when it lies beyond the last page
vsd_page_exceeds(page, pages) == page > pages /\ pages > 0

\* start of the page: ((page - 1) * per_page) as usize, the product taken in u32
vsd_start(page, per_page) == wrapping_mul_u32(page - 1, per_page)

\* a page end that is the end of the collection, whatever per_page
end_of_collection(start, per_page, total) == total

\* end of the page: (start + per_page as usize).min(total)
vsd_end(start, per_page, total) == Min(start + per_page, total)

\* From the fetched validators to the first item of the page.  With overflow
\* checks (a debug build) an overflowing product or difference panics; without
\* them it wraps.
vsd_paginate(q, validators, checks, calls) ==
    LET page == q.loc.page
        per_page == q.loc.per_page
        total == Len(validators)
        pages == total_pages(total, per_page)
        start == vsd_start(page, per_page)
        end == vsd_end(start, per_page, total)
        overflow == mul_overflows_u32(page - 1, per_page)
                        \/ sub_overflows_usize(end, start)
        take == wrapping_sub_usize(end, start)
    IN IF vsd_page_exceeds(page, pages)
       THEN Rejected(q, ApiError("InvalidPagination",
                                 Msg("Page number {} exceeds total pages {}",
                                     <<page, pages>>)), calls)
       ELSE IF overflow /\ checks
       THEN [q EXCEPT !.pc = "panicked", !.calls = calls]
       ELSE vsd_next(q, [q.loc EXCEPT !.validators = validators, !.total = total,
                                      !.total_pages = pages, !.start = start,
                                      !.end = end, !.i = start + 1, !.left = take,
                                      !.responses = <<>>], calls)

\* state asked for without an epoch: the node answers for its current one
state_at_current_epoch(loc) == None

\* the epoch arguments of the three sub-queries of one item
vsd_state_epoch(loc) == Some(loc.epoch)
vsd_stake_epoch(loc) == loc.state_epoch
vsd_metadata_epoch(loc) == Some(loc.state_epoch)

get_validators_details(r) ==
    /\ rq[r].pc = "validators_details"
    /\ rq' = [rq EXCEPT ![r] = vsd_validate(rq[r])]
    /\ UNCHANGED <<chainEpoch, chainVals, app_state>>

get_validators_details_query_epoch(r) ==
    /\ rq[r].pc = "vsd_query_epoch"
    /\ \E ok \in BOOLEAN :
        LET q == rq[r]
            calls == Append(q.calls, Call("validators_details", "query_epoch",
                                          "", None, chainEpoch, ok,
                                          client_query_epoch))
        IN rq' = [rq EXCEPT ![r] =
                    IF ~ok THEN Rejected(q, QueryError("query_epoch"), calls)
                    ELSE Goto(q, "vsd_get_all_validators",
                              [q.loc EXCEPT !.epoch = client_query_epoch], calls)]
    /\ UNCHANGED <<chainEpoch, chainVals, app_state>>

get_validators_details_get_all_validators(r) ==
    /\ rq[r].pc = "vsd_get_all_validators"
    /\ \E ok \in BOOLEAN :
        \E validators \in client_get_all_validators(rq[r].loc.epoch),
           checks \in BOOLEAN :
        LET q == rq[r]
            calls == Append(q.calls, Call("validators_details", "get_all_validators",
                                          "", Some(q.loc.epoch), q.loc.epoch, ok,
                                          validators))
        IN rq' = [rq EXCEPT ![r] =
                    IF ~ok THEN Rejected(q, QueryError("get_all_validators"), calls)
                    ELSE vsd_paginate(q, validators, checks, calls)]
    /\ UNCHANGED <<chainEpoch, chainVals, app_state>>

get_validators_details_get_validator_state(r) ==
    /\ rq[r].pc = "vsd_get_validator_state"
    /\ \E ok \in BOOLEAN :
        LET q == rq[r]
            arg == vsd_state_epoch(q.loc)
            res == client_get_validator_state(q.loc.address, arg)
            calls == Append(q.calls, Call("validators_details", "get_validator_state",
                                          q.loc.address, arg, res[2], ok,
                                          res))
        IN rq' = [rq EXCEPT ![r] =
                    IF ~ok THEN Rejected(q, QueryError("get_validator_state"), calls)
                    ELSE Goto(q, "vsd_get_validator_stake",
                              [q.loc EXCEPT !.state_info = res[1],
                                            !.state_epoch = res[2]],
                              calls)]
    /\ UNCHANGED <<chainEpoch, chainVals, app_state>>

get_validators_details_get_validator_stake(r) ==
    /\ rq[r].pc = "vsd_get_validator_stake"
    /\ \E ok \in BOOLEAN :
        LET q == rq[r]
            arg == vsd_stake_epoch(q.loc)
            calls == Append(q.calls, Call("validators_details", "get_validator_stake",
                                          q.loc.address, Some(arg), arg, ok,
                                          client_get_validator_stake(arg, q.loc.address)))
        IN rq' = [rq EXCEPT ![r] =
                    IF ~ok THEN Rejected(q, QueryError("get_validator_stake"), calls)
                    ELSE Goto(q, "vsd_query_metadata",
                              [q.loc EXCEPT !.stake =
                                  client_get_validator_stake(arg, q.loc.address)],
                              calls)]
    /\ UNCHANGED <<chainEpoch, chainVals, app_state>>

get_validators_details_query_metadata(r) ==
    /\ rq[r].pc = "vsd_query_metadata"
    /\ \E ok \in BOOLEAN :
        LET q == rq[r]
            arg == vsd_metadata_epoch(q.loc)
            res == client_query_metadata(q.loc.address, arg)
            calls == Append(q.calls, Call("validators_details", "query_metadata",
                                          q.loc.address, arg,
                                          UnwrapOr(arg, chainEpoch), ok,
                                          res))
        IN rq' = [rq EXCEPT ![r] =
                    IF ~ok THEN Rejected(q, QueryError("query_metadata"), calls)
                    ELSE vsd_next(q,
                            [q.loc EXCEPT
                                !.responses = Append(q.loc.responses,
                                    ValidatorDetailsResponse(
                                        q.loc.address, q.loc.state_info, q.loc.stake,
                                        res[1], res[2])),
                                !.i = q.loc.i + 1, !.left = usize_pred(q.loc.left)],
                            calls)]
    /\ UNCHANGED <<chainEpoch, chainVals, app_state>>

(***************************************************************************)
(* get_validator_by_tm_addr: GET /api/pos/validator_by_tm_addr/{tm_addr}   *)
(***************************************************************************)
\* a check of the length alone
wrong_length(tm_addr) == ByteLen(tm_addr) # TmAddrLen

\* !tm_addr.chars().all(|c| c.is_ascii_hexdigit()) || tm_addr.len() != 40
tm_addr_invalid(tm_addr) ==
    \/ ~(\A i \in 1..Len(tm_addr) : is_ascii_hexdigit(tm_addr[i]))
    \/ ByteLen(tm_addr) # TmAddrLen

tm_validate(q) ==
    LET tm_addr == q.path[Len(Routes[q.ri].segs) + 1] IN
    IF tm_addr_invalid(tm_addr)
    THEN Rejected(q, ApiError("InvalidTendermintAddress",
            Msg("Invalid Tendermint address format: {}. Expected 40 hex characters.",
                <<tm_addr>>)), q.calls)
    ELSE Goto(q, "tm_validator_by_tm_addr", [q.loc EXCEPT !.tm_addr = tm_addr], q.calls)

\* a lookup that answers with an address whatever the node reported
found_whatever_the_lookup(q, validator_address, calls) ==
    Replied(q, [address |-> UnwrapOr(validator_address, AddrNames[1])], calls)

\* match validator_address { Some(address) => Ok(..), None => Err(NotFound) }
tm_after_lookup(q, validator_address, calls) ==
    IF IsSome(validator_address)
    THEN Replied(q, [address |-> Unwrap(validator_address)], calls)
    ELSE Rejected(q, ApiError("NotFound",
                    Msg("No validator found with Tendermint address: {}",
                        <<q.loc.tm_addr>>)), calls)

get_validator_by_tm_addr(r) ==
    /\ rq[r].pc = "validator_by_tm"
    /\ rq' = [rq EXCEPT ![r] = tm_validate(rq[r])]
    /\ UNCHANGED <<chainEpoch, chainVals, app_state>>

get_validator_by_tm_addr_validator_by_tm_addr(r) ==
    /\ rq[r].pc = "tm_validator_by_tm_addr"
    /\ \E ok \in BOOLEAN :
        LET q == rq[r]
            calls == Append(q.calls, Call("validator_by_tm", "validator_by_tm_addr",
                                          "", None, chainEpoch, ok,
                                          client_validator_by_tm_addr(q.loc.tm_addr)))
        IN rq' = [rq EXCEPT ![r] =
                    IF ~ok
                    THEN Rejected(q, ApiError("QueryError",
                            Msg("Failed to query validator by Tendermint address: {}",
                                <<ClientErrorText("validator_by_tm_addr")>>)), calls)
                    ELSE tm_after_lookup(
                            q, client_validator_by_tm_addr(q.loc.tm_addr), calls)]
    /\ UNCHANGED <<chainEpoch, chainVals, app_state>>

(***************************************************************************)
(* The handlers with at most one client call.                              *)
(***************************************************************************)
\* serve_docs: GET /api/docs
serve_docs(r) ==
    /\ rq[r].pc = "docs"
    /\ rq' = [rq EXCEPT ![r] = Replied(rq[r], [html |-> "Namada API Documentation"],
                                       rq[r].calls)]
    /\ UNCHANGED <<chainEpoch, chainVals, app_state>>

\* health_check: GET /api/health/api_status
health_check(r) ==
    /\ rq[r].pc = "health"
    /\ rq' = [rq EXCEPT ![r] = Replied(rq[r], [status |-> "ok", version |-> "0.1.0"],
                                       rq[r].calls)]
    /\ UNCHANGED <<chainEpoch, chainVals, app_state>>

\* a health endpoint that answers without asking the node
answer_ok_unchecked(r) ==
    /\ rq[r].pc = "rpc_health"
    /\ rq' = [rq EXCEPT ![r] = Replied(rq[r], [status |-> "ok", rpc_url |-> app_state.namada_client.rpc_url],
                                       rq[r].calls)]
    /\ UNCHANGED <<chainEpoch, chainVals, app_state>>

\* a health endpoint that keeps the outcome of its check in the shared state
remember_rpc_status(r) ==
    /\ rq[r].pc = "rpc_health"
    /\ \E ok \in BOOLEAN :
        LET q == rq[r]
            calls == Append(q.calls, Call("rpc_health", "query_epoch",
                                          "", None, chainEpoch, ok,
                                          client_query_epoch))
        IN /\ rq' = [rq EXCEPT ![r] =
                      Replied(q, [status |-> IF ok THEN "ok" ELSE "error",
                                  rpc_url |-> app_state.namada_client.rpc_url], calls)]
           /\ app_state' = [app_state EXCEPT !.namada_client.rpc_url =
                                               IF ok THEN @ ELSE "unreachable"]
    /\ UNCHANGED <<chainEpoch, chainVals>>

\* rpc_health_check: GET /api/health/rpc_status; check_connection is query_epoch
rpc_health_check(r) ==
    /\ rq[r].pc = "rpc_health"
    /\ \E ok \in BOOLEAN :
        LET q == rq[r]
            calls == Append(q.calls, Call("rpc_health", "query_epoch",
                                          "", None, chainEpoch, ok,
                                          client_query_epoch))
        IN rq' = [rq EXCEPT ![r] =
                    IF ~ok
                    THEN Rejected(q, ApiError("RpcConnectionError",
                                              ClientErrorText("query_epoch")), calls)
                    ELSE Replied(q, [status |-> "ok", rpc_url |-> app_state.namada_client.rpc_url], calls)]
    /\ UNCHANGED <<chainEpoch, chainVals, app_state>>

\* get_liveness_info: GET /api/pos/liveness_info
get_liveness_info(r) ==
    /\ rq[r].pc = "liveness_info"
    /\ \E ok \in BOOLEAN :
        LET q == rq[r]
            calls == Append(q.calls, Call("liveness_info", "get_liveness_info",
                                          "", None, chainEpoch, ok,
                                          client_get_liveness_info))
        IN rq' = [rq EXCEPT ![r] =
                    IF ~ok
                    THEN Rejected(q, ApiError("QueryError",
                            Msg("Failed to fetch liveness info: {}",
                                <<ClientErrorText("get_liveness_info")>>)), calls)
                    ELSE Replied(q, client_get_liveness_info, calls)]
    /\ UNCHANGED <<chainEpoch, chainVals, app_state>>

(***************************************************************************)
(* get_consensus_validator_set and get_below_capacity_validator_set: the   *)
(* client method is called with None and asks for the current epoch first. *)
(***************************************************************************)
\* epoch: None => self.query_epoch().await?
validator_set_query_epoch(r) ==
    /\ rq[r].pc \in {"consensus_validator_set", "below_capacity_validator_set"}
    /\ \E ok \in BOOLEAN :
        LET q == rq[r]
            calls == Append(q.calls, Call(Routes[q.ri].name, "query_epoch",
                                          "", None, chainEpoch, ok,
                                          client_query_epoch))
        IN rq' = [rq EXCEPT ![r] =
                    IF ~ok THEN Rejected(q, QueryError("query_epoch"), calls)
                    ELSE Goto(q, IF q.pc = "consensus_validator_set"
                                 THEN "cs_consensus_validator_set"
                                 ELSE "bc_below_capacity_validator_set",
                              [q.loc EXCEPT !.epoch = client_query_epoch], calls)]
    /\ UNCHANGED <<chainEpoch, chainVals, app_state>>

get_consensus_validator_set(r) ==
    /\ rq[r].pc = "cs_consensus_validator_set"
    /\ \E ok \in BOOLEAN :
        LET q == rq[r]
            calls == Append(q.calls, Call("consensus_validator_set",
                                          "consensus_validator_set",
                                          "", Some(q.loc.epoch), q.loc.epoch, ok,
                                          client_get_consensus_validator_set(q.loc.epoch)))
        IN rq' = [rq EXCEPT ![r] =
                    IF ~ok THEN Rejected(q, QueryError("consensus_validator_set"), calls)
                    ELSE Replied(q, ValidatorSetResponse(
                            client_get_consensus_validator_set(q.loc.epoch)), calls)]
    /\ UNCHANGED <<chainEpoch, chainVals, app_state>>

get_below_capacity_validator_set(r) ==
    /\ rq[r].pc = "bc_below_capacity_validator_set"
    /\ \E ok \in BOOLEAN :
        LET q == rq[r]
            calls == Append(q.calls, Call("below_capacity_validator_set",
                                          "below_capacity_validator_set",
                                          "", Some(q.loc.epoch), q.loc.epoch, ok,
                                          client_get_below_capacity_validator_set(q.loc.epoch)))
        IN rq' = [rq EXCEPT ![r] =
                    IF ~ok
                    THEN Rejected(q, QueryError("below_capacity_validator_set"), calls)
                    ELSE Replied(q, ValidatorSetResponse(
                            client_get_below_capacity_validator_set(q.loc.epoch)), calls)]
    /\ UNCHANGED <<chainEpoch, chainVals, app_state>>

(***************************************************************************)
(* The requests a client sends.                                            *)
(***************************************************************************)
NoQuery == ValidatorsQuery(None, None)

PageParams == {None} \cup {Some(n) : n \in 0..MaxPage}

\* GET /api/pos/validators_details: every page with every small per_page, and
\* the defaults and the limit of per_page with the first pages
PageRequests ==
    {Request("GET", <<"api", "pos", "validators_details">>, TRUE,
             ValidatorsQuery(p, pp)) :
        p \in PageParams, pp \in {Some(n) : n \in 0..MaxSmallPerPage}}
    \cup {Request("GET", <<"api", "pos", "validators_details">>, TRUE,
                  ValidatorsQuery(p, pp)) :
            p \in {None, Some(0), Some(2)}, pp \in {None, Some(MaxPerPage + 1)}}
    \cup {Request("GET", <<"api", "pos", "validators_details">>, TRUE,
                  ValidatorsQuery(p, Some(MaxPerPage))) : p \in {Some(0), Some(1)}}

\* GET /api/pos/validators/{address}, for chain addresses and for a malformed one
DetailRequests ==
    {Request("GET", <<"api", "pos", "validators", s>>, TRUE, NoQuery) :
        s \in Addrs \cup {"invalid-address"}}

\* the routes without parameters, an unknown path, a query that does not
\* deserialize and a method that is not GET
PlainRequests ==
    {Request("GET", p, TRUE, NoQuery) :
        p \in {<<"api", "docs">>, <<"api", "health", "api_status">>,
               <<"api", "health", "rpc_status">>, <<"api", "pos", "liveness_info">>,
               <<"api", "pos", "validators">>,
               <<"api", "pos", "validator_set", "consensus">>,
               <<"api", "pos", "validator_set", "below_capacity">>,
               <<"api", "unknown">>}}
    \cup {Request("GET", <<"api", "pos", "validators_details">>, FALSE, NoQuery),
          Request("POST", <<"api", "pos", "validators">>, TRUE, NoQuery)}

\* a consensus address of n characters: hex digits, with character c at place k
\* (all hex digits when k = 0)
TmInput(n, k, c) == [i \in 1..n |-> IF i = k THEN c ELSE HexRun(n, 3)[i]]

\* GET /api/pos/validator_by_tm_addr/{tm_addr} for the given consensus addresses
TmRequests(inputs) ==
    {Request("GET", <<"api", "pos", "validator_by_tm_addr", tm>>, TRUE, NoQuery) :
        tm \in inputs}

\* the addresses of the chain's index, a well-formed one it does not hold, and
\* malformed ones
FewTmInputs ==
    {TmOf(a) : a \in Addrs}
    \cup {TmInput(TmAddrLen, 0, "0"), TmInput(TmAddrLen - 1, 0, "0"),
          TmInput(TmAddrLen, 7, "g")}

\* every length up to MaxTmLen, with no or one character that is no hex digit
\* at the first, a middle or the last place
ManyTmInputs ==
    {TmOf(a) : a \in Addrs}
    \cup {TmInput(n, 0, "0") : n \in 0..MaxTmLen}
    \cup {TmInput(n, k, OtherChars[c]) :
            n \in 1..MaxTmLen, k \in {1, 20, MaxTmLen - 2, MaxTmLen - 1, MaxTmLen},
            c \in 1..Len(OtherChars)}

\* A request arrives.
Receive(r) ==
    /\ rq[r].pc = "idle"
    /\ \/ \E q \in PageRequests : rq' = [rq EXCEPT ![r] = q]
       \/ \E q \in DetailRequests : rq' = [rq EXCEPT ![r] = q]
       \/ \E q \in PlainRequests : rq' = [rq EXCEPT ![r] = q]
       \/ \E q \in TmRequests(FewTmInputs) : rq' = [rq EXCEPT ![r] = q]
    /\ UNCHANGED <<chainEpoch, chainVals, app_state>>

(***************************************************************************)
(* The gateway serving one request at a time while the chain advances.     *)
(* At first no address is a validator, or every address is.                *)
(***************************************************************************)
Init ==
    /\ chainEpoch = 0
    /\ \E S \in {{}, Addrs} :
         chainVals = [e \in 0..MaxEpoch |-> IF e = 0 THEN S ELSE {}]
    /\ rq = [r \in Reqs |-> Idle]
    /\ app_state = AppState(NamadaClient_new(Config_load.rpc_url))

Handle(r) ==
    \/ TryRoute(r)
    \/ Recover(r)
    \/ serve_docs(r)
    \/ health_check(r)
    \/ rpc_health_check(r)
    \/ get_liveness_info(r)
    \/ get_validator_by_tm_addr(r)
    \/ get_validator_by_tm_addr_validator_by_tm_addr(r)
    \/ get_validator_details(r)
    \/ get_validator_details_is_validator(r)
    \/ get_validator_details_query_epoch(r)
    \/ get_validator_details_get_validator_state(r)
    \/ get_validator_details_get_validator_stake(r)
    \/ get_validator_details_query_metadata(r)
    \/ get_all_validators_query_epoch(r)
    \/ get_all_validators_get_all_validators(r)
    \/ get_validators_details(r)
    \/ get_validators_details_query_epoch(r)
    \/ get_validators_details_get_all_validators(r)
    \/ get_validators_details_get_validator_state(r)
    \/ get_validators_details_get_validator_stake(r)
    \/ get_validators_details_query_metadata(r)
    \/ validator_set_query_epoch(r)
    \/ get_consensus_validator_set(r)
    \/ get_below_capacity_validator_set(r)

Next ==
    \/ AdvanceEpoch
    \/ Receive("r1")
    \/ Handle("r1")

Spec == Init /\ [][Next]_vars

(***************************************************************************)
(* The gateway serving lookups by consensus address, for a wide range of   *)
(* well-formed and malformed inputs.                                       *)
(***************************************************************************)
ReceiveTm(r) ==
    /\ rq[r].pc = "idle"
    /\ \E q \in TmRequests(ManyTmInputs) : rq' = [rq EXCEPT ![r] = q]
    /\ UNCHANGED <<chainEpoch, chainVals, app_state>>

NextTm ==
    \/ ReceiveTm("r1")
    \/ TryRoute("r1")
    \/ Recover("r1")
    \/ get_validator_by_tm_addr("r1")
    \/ get_validator_by_tm_addr_validator_by_tm_addr("r1")

SpecTm == Init /\ [][NextTm]_vars

(***************************************************************************)
(* The gateway serving two requests for pages of validator details at the  *)
(* same time, every address being a validator and the chain at rest.       *)
(***************************************************************************)
\* GET /api/pos/validators_details?page=p&per_page=MaxSmallPerPage
FixedPerPageRequests ==
    {Request("GET", <<"api", "pos", "validators_details">>, TRUE,
             ValidatorsQuery(Some(p), Some(MaxSmallPerPage))) : p \in 1..MaxPage}

ReceivePage(r) ==
    /\ rq[r].pc = "idle"
    /\ \E q \in FixedPerPageRequests : rq' = [rq EXCEPT ![r] = q]
    /\ UNCHANGED <<chainEpoch, chainVals, app_state>>

InitTwo ==
    /\ chainEpoch = 0
    /\ chainVals = [e \in 0..MaxEpoch |-> IF e = 0 THEN Addrs ELSE {}]
    /\ rq = [r \in Reqs |-> Idle]
    /\ app_state = AppState(NamadaClient_new(Config_load.rpc_url))

NextTwo ==
    \E r \in Reqs :
        \/ ReceivePage(r)
        \/ TryRoute(r)
        \/ Recover(r)
        \/ get_validators_details(r)
        \/ get_validators_details_query_epoch(r)
        \/ get_validators_details_get_all_validators(r)
        \/ get_validators_details_get_validator_state(r)
        \/ get_validators_details_get_validator_stake(r)
        \/ get_validators_details_query_metadata(r)

SpecTwo == InitTwo /\ [][NextTwo]_vars

(***************************************************************************)
(* NamadaClient's methods with an optional epoch, step by step: the epoch  *)
(* is resolved, then the query is made.  They are called by the axum       *)
(* router of src/src/routes/pos.rs and, directly, with any epoch argument. *)
(***************************************************************************)
OptionalEpochMethods ==
    {"get_all_validators", "get_delegation_validators",
     "get_consensus_validator_set", "get_below_capacity_validator_set"}

\* the validators address a has bonds with at epoch e
ChainDelegations(a, e) == {v \in chainVals[e] : Idx(v) >= Idx(a)}

\* what the node can answer to the query of a method at an epoch
cm_results(method, address, epoch) ==
    CASE method = "get_all_validators" -> Orders(chainVals[epoch])
      [] method = "get_delegation_validators" ->
            Orders(ChainDelegations(address, epoch))
      [] method = "get_consensus_validator_set" -> {WeightedSet("Consensus", epoch)}
      [] method = "get_below_capacity_validator_set" ->
            {WeightedSet("BelowCapacity", epoch)}

\* a resolution that never takes the epoch it is given
epoch_never_supplied(maybe_epoch) == FALSE

\* match epoch { Some(e) => e, None => self.query_epoch().await? }
cm_epoch_supplied(maybe_epoch) == IsSome(maybe_epoch)

\* the handler of the axum route of request q
AxumHandler(q) ==
    IF q.path = <<"api", "pos", "validators">> THEN "axum_validators"
    ELSE "axum_delegations"

\* The method returns to its caller: a direct caller keeps the Result, an
\* axum handler answers 200 with the list or 500 with the error's text.
cm_return(q, ok, op, value, calls) ==
    LET err == [variant |-> "ClientError::QueryError", msg |-> ClientErrorText(op)]
        reply ==
            IF q.path = <<>> THEN [status |-> 0, body |-> value]
            ELSE IF ~ok
            THEN [status |-> 500,
                  body |-> [error |-> Msg("Query error: {}", <<ClientErrorText(op)>>)]]
            ELSE IF AxumHandler(q) = "axum_validators"
            THEN [status |-> 200,
                  body |-> [i \in 1..Len(value) |-> [address |-> value[i]]]]
            ELSE [status |-> 200,
                  body |-> [delegations |->
                              [i \in 1..Len(value) |->
                                  [validator |-> value[i], amount |-> "0"]]]]
    IN [q EXCEPT !.pc = "done", !.calls = calls,
                 !.reply = IF q.path = <<>> THEN NoReply ELSE reply,
                 !.outs = Append(q.outs,
                                 [h |-> IF q.path = <<>> THEN "caller" ELSE AxumHandler(q),
                                  ok |-> ok,
                                  err |-> IF ok THEN NoError ELSE err,
                                  reply |-> IF ok \/ q.path # <<>> THEN reply
                                            ELSE NoReply])]

\* the epoch is resolved: taken as given, or asked of the node
client_resolve_epoch(r) ==
    /\ rq[r].pc = "cm_resolve_epoch"
    /\ LET q == rq[r] IN
       IF cm_epoch_supplied(q.loc.maybe_epoch)
       THEN rq' = [rq EXCEPT ![r] =
                    Goto(q, "cm_query",
                         [q.loc EXCEPT !.epoch = Unwrap(q.loc.maybe_epoch)], q.calls)]
       ELSE \E ok \in BOOLEAN :
            LET calls == Append(q.calls, Call(q.loc.method, "query_epoch", "", None,
                                              chainEpoch, ok, client_query_epoch))
            IN rq' = [rq EXCEPT ![r] =
                        IF ~ok THEN cm_return(q, FALSE, "query_epoch", <<>>, calls)
                        ELSE Goto(q, "cm_query",
                                  [q.loc EXCEPT !.epoch = client_query_epoch], calls)]
    /\ UNCHANGED <<chainEpoch, chainVals, app_state>>

\* the query of the method, at the resolved epoch
client_query(r) ==
    /\ rq[r].pc = "cm_query"
    /\ \E ok \in BOOLEAN :
        \E value \in cm_results(rq[r].loc.method, rq[r].loc.address, rq[r].loc.epoch) :
        LET q == rq[r]
            calls == Append(q.calls, Call(q.loc.method, q.loc.method, q.loc.address,
                                          Some(q.loc.epoch), q.loc.epoch, ok, value))
        IN rq' = [rq EXCEPT ![r] = cm_return(q, ok, q.loc.method, value, calls)]
    /\ UNCHANGED <<chainEpoch, chainVals, app_state>>

\* a direct call of one of the methods, with or without an epoch
CallClient(r) ==
    /\ rq[r].pc = "idle"
    /\ \E m \in OptionalEpochMethods, a \in Addrs,
          me \in {None} \cup {Some(e) : e \in 0..MaxEpoch} :
        rq' = [rq EXCEPT ![r] =
                [Idle EXCEPT !.pc = "cm_resolve_epoch",
                             !.loc = [NoLocals EXCEPT
                                        !.method = m, !.maybe_epoch = me,
                                        !.address =
                                            IF m = "get_delegation_validators"
                                            THEN a ELSE ""]]]
    /\ UNCHANGED <<chainEpoch, chainVals, app_state>>

(***************************************************************************)
(* routes/pos.rs: the axum router's two routes that list, GET              *)
(* /api/pos/validators and GET /api/pos/delegations/:address.              *)
(***************************************************************************)
\* GET requests to the two routes and to a path the router does not have
AxumRequests ==
    {[Request("GET", p, TRUE, NoQuery) EXCEPT !.pc = "axum_route", !.ri = 0] :
        p \in {<<"api", "pos", "validators">>, <<"api", "unknown">>}
              \cup {<<"api", "pos", "delegations", s>> :
                        s \in Addrs \cup {"invalid-address"}}}

ReceiveAxum(r) ==
    /\ rq[r].pc = "idle"
    /\ \E q \in AxumRequests : rq' = [rq EXCEPT ![r] = q]
    /\ UNCHANGED <<chainEpoch, chainVals, app_state>>

\* Router::route: the path is matched as a whole
axum_router(r) ==
    /\ rq[r].pc = "axum_route"
    /\ LET q == rq[r] IN
       rq' = [rq EXCEPT ![r] =
                IF q.path = <<"api", "pos", "validators">>
                THEN Goto(q, "axum_query_epoch",
                          [NoLocals EXCEPT !.method = "get_all_validators"], q.calls)
                ELSE IF Len(q.path) = 4
                        /\ SubSeq(q.path, 1, 3) = <<"api", "pos", "delegations">>
                THEN Goto(q, "axum_delegations", NoLocals, q.calls)
                ELSE [q EXCEPT !.pc = "done", !.reply = [status |-> 404, body |-> <<>>]]]
    /\ UNCHANGED <<chainEpoch, chainVals, app_state>>

\* the delegations handler parses its address
axum_delegations(r) ==
    /\ rq[r].pc = "axum_delegations"
    /\ LET q == rq[r]
           a == AddressFromStr(q.path[4])
       IN rq' = [rq EXCEPT ![r] =
                IF ~a.ok
                THEN [q EXCEPT !.pc = "done",
                               !.reply = [status |-> 400,
                                          body |-> [error |->
                                            Msg("Invalid address format", <<>>)]]]
                ELSE Goto(q, "axum_query_epoch",
                          [q.loc EXCEPT !.address = a.address,
                                        !.method = "get_delegation_validators"],
                          q.calls)]
    /\ UNCHANGED <<chainEpoch, chainVals, app_state>>

\* let epoch = state.namada_client.query_epoch().await.ok();
axum_query_epoch(r) ==
    /\ rq[r].pc = "axum_query_epoch"
    /\ \E ok \in BOOLEAN :
        LET q == rq[r]
            calls == Append(q.calls, Call(AxumHandler(q), "query_epoch", "", None,
                                          chainEpoch, ok, client_query_epoch))
        IN rq' = [rq EXCEPT ![r] =
                    Goto(q, "cm_resolve_epoch",
                         [q.loc EXCEPT !.maybe_epoch =
                            IF ok THEN Some(client_query_epoch) ELSE None],
                         calls)]
    /\ UNCHANGED <<chainEpoch, chainVals, app_state>>

NextAxum ==
    \/ AdvanceEpoch
    \/ ReceiveAxum("r1")
    \/ CallClient("r1")
    \/ axum_router("r1")
    \/ axum_delegations("r1")
    \/ axum_query_epoch("r1")
    \/ client_resolve_epoch("r1")
    \/ client_query("r1")

SpecAxum == Init /\ [][NextAxum]_vars

(***************************************************************************)
(* handle_rejection over every rejection warp can hand it: the rejections  *)
(* of up to MaxRejections routes, each NotFound, a rejection of warp's own *)
(* (method not allowed, invalid query) or a custom ApiError of any of the  *)
(* eight variants.                                                         *)
(***************************************************************************)
ApiErrorVariants ==
    {"BadRequest", "NotFound", "QueryError", "InvalidAddress", "InvalidPagination",
     "InvalidTendermintAddress", "RpcConnectionError", "InternalError"}

\* the String an ApiError carries
ErrorMessages == {Msg("first cause", <<>>), Msg("second cause", <<>>)}

OneRejection ==
    {Rejection(k, NoError) : k \in {"NotFound", "MethodNotAllowed", "InvalidQuery"}}
    \cup {Rejection("Custom", ApiError(v, m)) : v \in ApiErrorVariants, m \in ErrorMessages}

RejectionLists ==
    UNION {[1..n -> OneRejection] : n \in 1..MaxRejections}

\* every filter of the .or() chain has rejected the request
RejectAll(r) ==
    /\ rq[r].pc = "idle"
    /\ \E rejs \in RejectionLists :
         rq' = [rq EXCEPT ![r] =
                  [Request("GET", <<"api">>, TRUE, ValidatorsQuery(None, None))
                      EXCEPT !.ri = Len(Routes) + 1, !.rejs = rejs]]
    /\ UNCHANGED <<chainEpoch, chainVals, app_state>>

NextRej ==
    \/ RejectAll("r1")
    \/ Recover("r1")

SpecRej == Init /\ [][NextRej]_vars

(***************************************************************************)
(* The gateway serving two clients that poll the health endpoints.         *)
(***************************************************************************)
HealthRequests ==
    {Request(m, p, TRUE, NoQuery) :
        m \in {"GET", "POST"},
        p \in {<<"api", "health", "rpc_status">>, <<"api", "health", "api_status">>,
               <<"api", "health", "rpc_status", "now">>, <<"api", "health", "rpc">>}}

ReceiveHealth(r) ==
    /\ rq[r].pc = "idle"
    /\ \E q \in HealthRequests : rq' = [rq EXCEPT ![r] = q]
    /\ UNCHANGED <<chainEpoch, chainVals, app_state>>

NextHealth ==
    \/ AdvanceEpoch
    \/ \E r \in Reqs :
         \/ ReceiveHealth(r)
         \/ TryRoute(r)
         \/ Recover(r)
         \/ health_check(r)
         \/ rpc_health_check(r)

SpecHealth == Init /\ [][NextHealth]_vars

(***************************************************************************)
(* A client call step by step, and a request that is dropped on the way.   *)
(* Every NamadaClient method moves its query into spawn_blocking, where    *)
(* the closure runs block_on(rpc::...) on a thread of the blocking pool,   *)
(* and awaits the JoinHandle.  When the connection of a request closes,    *)
(* the server drops the request's future at the await it is suspended at;  *)
(* a dropped JoinHandle detaches its task, it does not stop it.            *)
(* The handler is get_all_validators: query_epoch, then get_all_validators.*)
(***************************************************************************)
CancellableRequests ==
    {Request(m, <<"api", "pos", "validators">>, TRUE, NoQuery) : m \in {"GET", "POST"}}

ReceiveCancellable(r) ==
    /\ rq[r].pc = "idle"
    /\ \E q \in CancellableRequests : rq' = [rq EXCEPT ![r] = q]
    /\ UNCHANGED <<chainEpoch, chainVals, app_state>>

\* spawn_blocking(move || ...): the closure is queued on the blocking pool
spawn_blocking(q, op, arg, pc) ==
    [q EXCEPT !.pc = pc,
              !.task = [NoTask EXCEPT !.op = op, !.arg = arg, !.state = "running"]]

\* query_epoch up to its .await of the JoinHandle
query_epoch_spawn(r) ==
    /\ rq[r].pc = "all_validators"
    /\ rq' = [rq EXCEPT ![r] = spawn_blocking(rq[r], "query_epoch", None,
                                              "av_await_query_epoch")]
    /\ UNCHANGED <<chainEpoch, chainVals, app_state>>

\* get_all_validators(Some(epoch)) up to its .await of the JoinHandle
get_all_validators_spawn(r) ==
    /\ rq[r].pc = "av_get_all_validators"
    /\ rq' = [rq EXCEPT ![r] = spawn_blocking(rq[r], "get_all_validators",
                                              Some(rq[r].loc.epoch),
                                              "av_await_get_all_validators")]
    /\ UNCHANGED <<chainEpoch, chainVals, app_state>>

\* the answers the node can give to the query of a task
task_results(task) ==
    IF task.op = "query_epoch" THEN {client_query_epoch}
    ELSE client_get_all_validators(Unwrap(task.arg))

\* the closure runs on its pool thread: block_on drives the RPC query to its
\* end, whether or not anything still awaits the JoinHandle
blocking_pool_run(r) ==
    /\ rq[r].task.state = "running"
    /\ \E ok \in BOOLEAN :
        \E res \in task_results(rq[r].task) :
        LET q == rq[r]
            c == Call("all_validators", q.task.op, "", q.task.arg,
                      UnwrapOr(q.task.arg, chainEpoch), ok, res)
        IN rq' = [rq EXCEPT ![r] =
                    [q EXCEPT !.calls = Append(q.calls, c),
                              !.task = [q.task EXCEPT !.state = "finished",
                                                      !.ok = ok, !.res = c.res]]]
    /\ UNCHANGED <<chainEpoch, chainVals, app_state>>

\* the JoinHandle of query_epoch resolves and get_all_validators goes on
query_epoch_join(r) ==
    /\ rq[r].pc = "av_await_query_epoch"
    /\ rq[r].task.state = "finished"
    /\ LET q == [rq[r] EXCEPT !.task = NoTask]
           t == rq[r].task
       IN rq' = [rq EXCEPT ![r] =
                   IF ~t.ok THEN Rejected(q, QueryError("query_epoch"), q.calls)
                   ELSE Goto(q, "av_get_all_validators",
                             [q.loc EXCEPT !.epoch = t.res], q.calls)]
    /\ UNCHANGED <<chainEpoch, chainVals, app_state>>

\* the JoinHandle of get_all_validators resolves and the handler replies
get_all_validators_join(r) ==
    /\ rq[r].pc = "av_await_get_all_validators"
    /\ rq[r].task.state = "finished"
    /\ LET q == [rq[r] EXCEPT !.task = NoTask]
           t == rq[r].task
       IN rq' = [rq EXCEPT ![r] =
                   IF ~t.ok THEN Rejected(q, QueryError("get_all_validators"), q.calls)
                   ELSE Replied(q, [validators |-> t.res], q.calls)]
    /\ UNCHANGED <<chainEpoch, chainVals, app_state>>

\* the connection closes: the future of the request is dropped where it is
\* suspended, and with it the JoinHandle it awaits
Cancel(r) ==
    /\ rq[r].pc \notin {"idle", "done", "cancelled"}
    /\ rq' = [rq EXCEPT ![r] =
                [rq[r] EXCEPT !.pc = "cancelled",
                              !.task = [rq[r].task EXCEPT
                                          !.detached = (rq[r].task.state = "running"),
                                          !.calls_before = Len(rq[r].calls)]]]
    /\ UNCHANGED <<chainEpoch, chainVals, app_state>>

NextCancel ==
    \/ AdvanceEpoch
    \/ \E r \in Reqs :
         \/ ReceiveCancellable(r)
         \/ TryRoute(r)
         \/ Recover(r)
         \/ query_epoch_spawn(r)
         \/ get_all_validators_spawn(r)
         \/ blocking_pool_run(r)
         \/ query_epoch_join(r)
         \/ get_all_validators_join(r)
         \/ Cancel(r)

SpecCancel == Init /\ [][NextCancel]_vars

(***************************************************************************)
(* The gateway serving two requests at once while the chain advances: the  *)
(* handlers of both run on clones of the one Arc<AppState>, and their      *)
(* chain calls interleave in every order.                                  *)
(***************************************************************************)
ConcurrentRequests ==
    {Request("GET", p, TRUE, NoQuery) :
        p \in {<<"api", "health", "rpc_status">>, <<"api", "pos", "validators">>,
               <<"api", "pos", "validator_set", "consensus">>}}

ReceiveConcurrent(r) ==
    /\ rq[r].pc = "idle"
    /\ \E q \in ConcurrentRequests : rq' = [rq EXCEPT ![r] = q]
    /\ UNCHANGED <<chainEpoch, chainVals, app_state>>

NextConcurrent ==
    \/ AdvanceEpoch
    \/ \E r \in Reqs :
         \/ ReceiveConcurrent(r)
         \/ TryRoute(r)
         \/ Recover(r)
         \/ rpc_health_check(r)
         \/ get_all_validators_query_epoch(r)
         \/ get_all_validators_get_all_validators(r)
         \/ validator_set_query_epoch(r)
         \/ get_consensus_validator_set(r)

SpecConcurrent == Init /\ [][NextConcurrent]_vars

(***************************************************************************)
(* The gateway serving page requests only, while the chain advances.       *)
(***************************************************************************)
ReceivePages(r) ==
    /\ rq[r].pc = "idle"
    /\ \E q \in PageRequests
                 \cup {Request("GET", <<"api", "pos", "validators_details">>,
                               FALSE, NoQuery)} :
         rq' = [rq EXCEPT ![r] = q]
    /\ UNCHANGED <<chainEpoch, chainVals, app_state>>

NextPages ==
    \/ AdvanceEpoch
    \/ ReceivePages("r1")
    \/ TryRoute("r1")
    \/ Recover("r1")
    \/ get_validators_details("r1")
    \/ get_validators_details_query_epoch("r1")
    \/ get_validators_details_get_all_validators("r1")
    \/ get_validators_details_get_validator_state("r1")
    \/ get_validators_details_get_validator_stake("r1")
    \/ get_validators_details_query_metadata("r1")

SpecPages == Init /\ [][NextPages]_vars

(***************************************************************************)
(* routes/pos.rs: the axum router's route of one validator,                *)
(* GET /api/pos/validators/:address.  Its handler answers by itself, with  *)
(* a status and a JSON body; it passes no epoch to the state and metadata  *)
(* queries, so the node reads each at the epoch current when it is asked.  *)
(***************************************************************************)
AxumDetailRequests ==
    {[Request("GET", <<"api", "pos", "validators", s>>, TRUE, NoQuery)
         EXCEPT !.pc = "axum_validator_detail", !.ri = 0] :
        s \in Addrs \cup {"invalid-address"}}

ReceiveAxumDetail(r) ==
    /\ rq[r].pc = "idle"
    /\ \E q \in AxumDetailRequests : rq' = [rq EXCEPT ![r] = q]
    /\ UNCHANGED <<chainEpoch, chainVals, app_state>>

\* the answer of an axum handler: (StatusCode, Json(body))
AxumReplied(q, status, body, calls) ==
    [q EXCEPT !.pc = "done", !.calls = calls,
              !.reply = [status |-> status, body |-> body],
              !.outs = Append(q.outs, [h |-> "axum_validator_detail",
                                       ok |-> status = 200, err |-> NoError,
                                       reply |-> [status |-> status, body |-> body]])]

\* Json(json!({"error": format!("Query error: {}", e)})) with status 500
AxumQueryError(q, op, calls) ==
    AxumReplied(q, 500, [error |-> Msg("Query error: {}", <<ClientErrorText(op)>>)],
                calls)

\* the ValidatorDetailsResponse the axum handler builds
AxumValidatorDetailsResponse(address, state_info, stake, metadata, commission) ==
    [address |-> address,
     state |-> IF IsSome(state_info) THEN Unwrap(state_info) ELSE "Unknown",
     stake |-> ToString(stake),
     commission_rate |-> UnwrapOr(commission.commission_rate, ""),
     max_commission_change_per_epoch |->
        UnwrapOr(commission.max_commission_change_per_epoch, ""),
     metadata |-> metadata]

\* Address::from_str(&address_str)
axum_validator_detail(r) ==
    /\ rq[r].pc = "axum_validator_detail"
    /\ LET q == rq[r]
           a == AddressFromStr(q.path[4])
       IN rq' = [rq EXCEPT ![r] =
                IF ~a.ok
                THEN AxumReplied(q, 400, [error |-> Msg("Invalid address format", <<>>)],
                                 q.calls)
                ELSE Goto(q, "axd_is_validator",
                          [NoLocals EXCEPT !.address = a.address], q.calls)]
    /\ UNCHANGED <<chainEpoch, chainVals, app_state>>

axum_validator_detail_is_validator(r) ==
    /\ rq[r].pc = "axd_is_validator"
    /\ \E ok \in BOOLEAN :
        LET q == rq[r]
            calls == Append(q.calls, Call("axum_validator_detail", "is_validator",
                                          q.loc.address, None, chainEpoch, ok,
                                          client_is_validator(q.loc.address)))
        IN rq' = [rq EXCEPT ![r] =
                    IF ~ok THEN AxumQueryError(q, "is_validator", calls)
                    ELSE IF ~client_is_validator(q.loc.address)
                    THEN AxumReplied(q, 404,
                                     [error |-> Msg("Address is not a validator", <<>>)],
                                     calls)
                    ELSE Goto(q, "axd_get_validator_state", q.loc, calls)]
    /\ UNCHANGED <<chainEpoch, chainVals, app_state>>

\* get_validator_state(&address, None)
axum_validator_detail_get_validator_state(r) ==
    /\ rq[r].pc = "axd_get_validator_state"
    /\ \E ok \in BOOLEAN :
        LET q == rq[r]
            res == client_get_validator_state(q.loc.address, None)
            calls == Append(q.calls, Call("axum_validator_detail", "get_validator_state",
                                          q.loc.address, None, res[2], ok, res))
        IN rq' = [rq EXCEPT ![r] =
                    IF ~ok THEN AxumQueryError(q, "get_validator_state", calls)
                    ELSE Goto(q, "axd_get_validator_stake",
                              [q.loc EXCEPT !.state_info = res[1],
                                            !.state_epoch = res[2]],
                              calls)]
    /\ UNCHANGED <<chainEpoch, chainVals, app_state>>

\* get_validator_stake(epoch, &address), epoch the one the state query returned
axum_validator_detail_get_validator_stake(r) ==
    /\ rq[r].pc = "axd_get_validator_stake"
    /\ \E ok \in BOOLEAN :
        LET q == rq[r]
            arg == q.loc.state_epoch
            calls == Append(q.calls, Call("axum_validator_detail", "get_validator_stake",
                                          q.loc.address, Some(arg), arg, ok,
                                          client_get_validator_stake(arg, q.loc.address)))
        IN rq' = [rq EXCEPT ![r] =
                    IF ~ok THEN AxumQueryError(q, "get_validator_stake", calls)
                    ELSE Goto(q, "axd_query_metadata",
                              [q.loc EXCEPT !.stake =
                                  client_get_validator_stake(arg, q.loc.address)],
                              calls)]
    /\ UNCHANGED <<chainEpoch, chainVals, app_state>>

\* query_metadata(&address, None), then the response
axum_validator_detail_query_metadata(r) ==
    /\ rq[r].pc = "axd_query_metadata"
    /\ \E ok \in BOOLEAN :
        LET q == rq[r]
            res == client_query_metadata(q.loc.address, None)
            calls == Append(q.calls, Call("axum_validator_detail", "query_metadata",
                                          q.loc.address, None, chainEpoch, ok, res))
        IN rq' = [rq EXCEPT ![r] =
                    IF ~ok THEN AxumQueryError(q, "query_metadata", calls)
                    ELSE AxumReplied(q, 200,
                                     AxumValidatorDetailsResponse(
                                        q.loc.address, q.loc.state_info, q.loc.stake,
                                        res[1], res[2]),
                                     calls)]
    /\ UNCHANGED <<chainEpoch, chainVals, app_state>>

NextAxumDetail ==
    \/ AdvanceEpoch
    \/ \E r \in Reqs :
         \/ ReceiveAxumDetail(r)
         \/ axum_validator_detail(r)
         \/ axum_validator_detail_is_validator(r)
         \/ axum_validator_detail_get_validator_state(r)
         \/ axum_validator_detail_get_validator_stake(r)
         \/ axum_validator_detail_query_metadata(r)

SpecAxumDetail == Init /\ [][NextAxumDetail]_vars

(***************************************************************************)
(* Page requests with a large page number.  ValidatorsQuery.page is a u32   *)
(* and validate() bounds it from below only, so the gateway receives such  *)
(* pages; per_page is at its limit.                                        *)
(***************************************************************************)
LargePageRequests ==
    {Request("GET", <<"api", "pos", "validators_details">>, TRUE,
             ValidatorsQuery(Some(p), Some(MaxPerPage))) : p \in {1, 2, LargePage}}
    \cup {Request("GET", <<"api", "pos", "validators_details">>, TRUE,
                  ValidatorsQuery(Some(1), None))}

ReceiveLargePages(r) ==
    /\ rq[r].pc = "idle"
    /\ \E q \in LargePageRequests : rq' = [rq EXCEPT ![r] = q]
    /\ UNCHANGED <<chainEpoch, chainVals, app_state>>

NextLargePages ==
    \/ AdvanceEpoch
    \/ ReceiveLargePages("r1")
    \/ TryRoute("r1")
    \/ Recover("r1")
    \/ get_validators_details("r1")
    \/ get_validators_details_query_epoch("r1")
    \/ get_validators_details_get_all_validators("r1")
    \/ get_validators_details_get_validator_state("r1")
    \/ get_validators_details_get_validator_stake("r1")
    \/ get_validators_details_query_metadata("r1")

SpecLargePages == Init /\ [][NextLargePages]_vars

(***************************************************************************)
(* The gateway under fair scheduling.  The runtime polls the task of a     *)
(* received request whenever it can take a step, and every call of the     *)
(* Chain Query Service returns a result or a failure, so a request whose   *)
(* next step is enabled takes it; nothing obliges a client to send a       *)
(* request or the chain to advance.                                        *)
(***************************************************************************)
SpecLive == Init /\ [][Next]_vars /\ WF_vars(Handle("r1"))

(***************************************************************************)
(* What the claims speak of.                                               *)
(***************************************************************************)
\* the calls of handler h in the call log of request q, in the order made
CallsOf(q, h) == SelectSeq(q.calls, LAMBDA c : c.h = h)
CallsOfOp(q, h, op) == SelectSeq(q.calls, LAMBDA c : c.h = h /\ c.op = op)

\* the three sub-queries of a validator record
DetailOps == {"get_validator_state", "get_validator_stake", "query_metadata"}

\* handler h has run for request q and returned Ok / Err of the given variant
Returned(q, h) == \E i \in 1..Len(q.outs) : q.outs[i].h = h /\ q.outs[i].ok
Failed(q, h, variant) ==
    \E i \in 1..Len(q.outs) :
        q.outs[i].h = h /\ ~q.outs[i].ok /\ q.outs[i].err.variant = variant

\* request q asks for a path that starts with the segments segs
OnPath(q, segs) ==
    /\ q.pc # "idle"
    /\ Len(q.path) >= Len(segs)
    /\ SubSeq(q.path, 1, Len(segs)) = segs

\* C1: whenever get_validator_details or get_validators_details has returned a
\* record, the handler asked for the current epoch exactly once, and each of its
\* state, stake and metadata queries was evaluated at the epoch that query
\* answered, whatever the chain's epoch was when they were made.
C1_OneEpochPerRecord ==
    \A r \in Reqs : \A h \in {"validator_details", "validators_details"} :
        Returned(rq[r], h) =>
            LET resolved == CallsOfOp(rq[r], h, "query_epoch") IN
            /\ Len(resolved) = 1
            /\ \A i \in 1..Len(rq[r].calls) :
                (rq[r].calls[i].h = h /\ rq[r].calls[i].op \in DetailOps) =>
                    rq[r].calls[i].ev = resolved[1].res

\* a record was returned although the chain moved on between its sub-queries
C1_Witness ==
    \E r \in Reqs : \E h \in {"validator_details", "validators_details"} :
        /\ Returned(rq[r], h)
        /\ \E i \in 1..Len(rq[r].calls) :
            /\ rq[r].calls[i].h = h
            /\ rq[r].calls[i].op = "query_metadata"
            /\ rq[r].calls[i].at > rq[r].calls[i].ev
            /\ \E j \in 1..Len(rq[r].calls) :
                /\ rq[r].calls[j].h = h
                /\ rq[r].calls[j].op = "get_validator_state"
                /\ rq[r].calls[j].addr = rq[r].calls[i].addr
                /\ rq[r].calls[j].at = rq[r].calls[j].ev

C3_MalformedAddressNoChainCall ==
    \A r \in Reqs :
        (/\ OnPath(rq[r], <<"api", "pos", "validators">>)
         /\ Len(rq[r].path) = 4
         /\ rq[r].method = "GET"
         /\ ~AddressFromStr(rq[r].path[4]).ok) =>
            /\ rq[r].calls = <<>>
            /\ rq[r].pc = "done" => rq[r].reply.status = 400

\* the addresses of the records a handler returned, in the order of the reply
RepliedAddresses(q) ==
    [i \in 1..Len(q.reply.body.validators) |-> q.reply.body.validators[i].address]

\* page and per_page of a request after the defaults (1 and 10) are applied
PageOf(q) == UnwrapOr(q.query.page, 1)
PerPageOf(q) == UnwrapOr(q.query.per_page, 10)

\* total / per_page rounded up
CeilDiv(total, per_page) == (total + per_page - 1) \div per_page

\* the address collection get_validators_details fetched for request q
Fetched(q) == CallsOfOp(q, "validators_details", "get_all_validators")

\* C5: when the consensus address resolves to a validator address that is not
\* in the validator set at the time of the lookup, get_validator_by_tm_addr
\* returns NotFound and does not return that address.
C5_NoStaleAddress ==
    \A r \in Reqs : \A i \in 1..Len(rq[r].calls) :
        LET c == rq[r].calls[i] IN
        (/\ c.op = "validator_by_tm_addr" /\ c.ok /\ IsSome(c.res)
         /\ Unwrap(c.res) \notin chainVals[c.at]) =>
            /\ Failed(rq[r], "validator_by_tm", "NotFound")
            /\ ~Returned(rq[r], "validator_by_tm")

\* C6: with page = 0, per_page = 0 or per_page > 50, get_validators_details
\* returns InvalidPagination, the request makes no chain call at all and is
\* answered with 400; with page = 0 the error is the one of the page, whatever
\* per_page is.
C6_BadPaginationNoChainCall ==
    \A r \in Reqs :
        LET q == rq[r]
            bad_page == q.query.page = Some(0)
            bad_per_page == IsSome(q.query.per_page)
                                /\ (Unwrap(q.query.per_page) = 0
                                        \/ Unwrap(q.query.per_page) > 50)
        IN (q.pc # "idle" /\ (bad_page \/ bad_per_page)) =>
            /\ q.calls = <<>>
            /\ q.pc \notin {"vsd_query_epoch", "vsd_get_all_validators"}
            /\ \A i \in 1..Len(q.outs) :
                /\ q.outs[i].h = "validators_details"
                /\ ~q.outs[i].ok
                /\ q.outs[i].err.variant = "InvalidPagination"
                /\ bad_page =>
                    q.outs[i].err.msg.text = "Page number must be greater than 0"
            /\ q.pc = "done" =>
                /\ Len(q.outs) = 1
                /\ q.reply.status = 400

\* page = 0 together with per_page = 51 was answered with the page error
C6_Witness ==
    \E r \in Reqs :
        /\ rq[r].pc = "done"
        /\ rq[r].query = ValidatorsQuery(Some(0), Some(51))
        /\ Failed(rq[r], "validators_details", "InvalidPagination")
        /\ rq[r].outs[1].err.msg.text = "Page number must be greater than 0"
        /\ rq[r].calls = <<>>

\* C7: when the fetched collection has total_pages > 0 pages and page is
\* beyond them, get_validators_details returns InvalidPagination with a message
\* that names page and total_pages, and no state, stake or metadata query is
\* made; 25 addresses in pages of 10 are 3 pages, and page 4 is beyond them.
C7_PageBeyondLastRejected ==
    /\ total_pages(25, 10) = 3
    /\ vsd_page_exceeds(4, total_pages(25, 10))
    /\ \A r \in Reqs :
        LET q == rq[r]
            fetched == Fetched(q)
        IN
        (Len(fetched) > 0 /\ fetched[1].ok) =>
            LET pages == CeilDiv(Len(fetched[1].res), PerPageOf(q)) IN
            (pages > 0 /\ PageOf(q) > pages) =>
                /\ Failed(q, "validators_details", "InvalidPagination")
                /\ \A i \in 1..Len(q.outs) :
                    q.outs[i].h = "validators_details" =>
                        /\ q.outs[i].err.msg.text
                                = "Page number {} exceeds total pages {}"
                        /\ q.outs[i].err.msg.args = <<PageOf(q), pages>>
                /\ \A i \in 1..Len(q.calls) : q.calls[i].op \notin DetailOps

\* page 3 of a collection of 2 pages was rejected and answered with 400
C7_Witness ==
    \E r \in Reqs :
        /\ rq[r].pc = "done"
        /\ rq[r].query = ValidatorsQuery(Some(3), Some(2))
        /\ Len(Fetched(rq[r])) > 0 /\ Fetched(rq[r])[1].ok
        /\ Len(Fetched(rq[r])[1].res) = 3
        /\ Failed(rq[r], "validators_details", "InvalidPagination")
        /\ rq[r].outs[1].err.msg.args = <<3, 2>>
        /\ rq[r].reply.status = 400

\* C8: for total >= 1 and 1 <= page <= ceil(total / per_page), the records
\* get_validators_details returns are those of the fetched addresses at
\* positions (page-1)*per_page .. min(page*per_page, total) - 1 (counted from
\* 0), in the fetched order; page 3 of 25 addresses in pages of 10 starts at
\* position 20 and ends before position 25.
C8_PageIsSliceOfFetched ==
    /\ vsd_start(3, 10) = 20
    /\ vsd_end(vsd_start(3, 10), 10, 25) = 25
    /\ \A r \in Reqs :
        LET q == rq[r] IN
        Returned(q, "validators_details") =>
            LET fetched == Fetched(q)[1].res
                total == Len(fetched)
                first == (PageOf(q) - 1) * PerPageOf(q)
                last == Min(first + PerPageOf(q), total)
            IN (total >= 1 /\ PageOf(q) <= CeilDiv(total, PerPageOf(q))) =>
                /\ RepliedAddresses(q) = SubSeq(fetched, first + 1, last)
                /\ Len(RepliedAddresses(q)) = Min(PerPageOf(q), total - first)

\* the last page, shorter than per_page, was returned: page 2 of 3 addresses
\* in pages of 2
C8_Witness ==
    \E r \in Reqs :
        /\ Returned(rq[r], "validators_details")
        /\ rq[r].query = ValidatorsQuery(Some(2), Some(2))
        /\ Len(Fetched(rq[r])[1].res) = 3
        /\ RepliedAddresses(rq[r]) = <<Fetched(rq[r])[1].res[3]>>

\* the characters 0-9, A-F and a-f
HexChars == {"0", "1", "2", "3", "4", "5", "6", "7", "8", "9",
             "A", "B", "C", "D", "E", "F", "a", "b", "c", "d", "e", "f"}

\* s matches ^[0-9A-Fa-f]{40}$
MatchesHex40(s) == Len(s) = 40 /\ \A i \in 1..Len(s) : s[i] \in HexChars

\* C4: get_validator_by_tm_addr rejects an input with InvalidTendermintAddress
\* and without any chain call if it does not match ^[0-9A-Fa-f]{40}$, and it
\* lets an input that matches through to the chain query.
C4_RejectsExactlyNonHex40 ==
    \A r \in Reqs :
        LET q == rq[r] IN
        (OnPath(q, <<"api", "pos", "validator_by_tm_addr">>) /\ Len(q.path) = 4) =>
            IF MatchesHex40(q.path[4])
            THEN /\ \A i \in 1..Len(q.outs) :
                        q.outs[i].err.variant # "InvalidTendermintAddress"
                 /\ Len(q.outs) > 0 =>
                        /\ Len(q.calls) = 1
                        /\ q.calls[1].op = "validator_by_tm_addr"
                 /\ q.pc = "done" => Len(q.outs) = 1
            ELSE /\ q.calls = <<>>
                 /\ q.pc # "tm_validator_by_tm_addr"
                 /\ \A i \in 1..Len(q.outs) :
                        /\ ~q.outs[i].ok
                        /\ q.outs[i].err.variant = "InvalidTendermintAddress"
                 /\ q.pc = "done" => (Len(q.outs) = 1 /\ q.reply.status = 400)

\* an input of 39 characters and 40 bytes, one of them no hex digit, was
\* rejected without a chain call
C4_Witness ==
    \E r \in Reqs :
        /\ rq[r].pc = "done"
        /\ rq[r].path = <<"api", "pos", "validator_by_tm_addr",
                          TmInput(39, 20, "U+00E9")>>
        /\ ByteLen(rq[r].path[4]) = 40
        /\ Failed(rq[r], "validator_by_tm", "InvalidTendermintAddress")
        /\ rq[r].calls = <<>>

\* the epoch get_validators_details resolved for request q
EpochOf(q) == CallsOfOp(q, "validators_details", "query_epoch")[1].res

\* the elements of a sequence
Range(s) == {s[i] : i \in 1..Len(s)}

ItemCalls(q) ==
    SelectSeq(q.calls, LAMBDA c : c.h = "validators_details" /\ c.op \in DetailOps)

\* C11: within one get_validators_details request every state, stake and
\* metadata query of every item is evaluated at the epoch the request resolved
\* once at its start, so the epoch of one query never differs from that of the
\* query before it, even when the chain advances while the page is built.
C11_OneEpochPerPage ==
    \A r \in Reqs :
        LET q == rq[r]
            resolved == CallsOfOp(q, "validators_details", "query_epoch")
            items == ItemCalls(q)
        IN Len(items) > 0 =>
            /\ Len(resolved) = 1
            /\ resolved[1].ok
            /\ \A i \in 1..Len(items) : items[i].ev = resolved[1].res
            /\ \A i \in 1..(Len(items) - 1) : items[i + 1].ev = items[i].ev

\* a page of two items was returned, the first item queried before the chain
\* advanced and the second one after
C11_Witness ==
    \E r \in Reqs :
        /\ Returned(rq[r], "validators_details")
        /\ Len(rq[r].reply.body.validators) >= 2
        /\ \E i, j \in 1..Len(ItemCalls(rq[r])) :
            /\ i < j
            /\ ItemCalls(rq[r])[i].addr # ItemCalls(rq[r])[j].addr
            /\ ItemCalls(rq[r])[i].at = ItemCalls(rq[r])[i].ev
            /\ ItemCalls(rq[r])[j].op = "get_validator_state"
            /\ ItemCalls(rq[r])[j].at > ItemCalls(rq[r])[j].ev

\* the result of handler h for request q: its entry in q.outs
OutOf(q, h) == SelectSeq(q.outs, LAMBDA o : o.h = h)

C13_EpochResolution ==
    \A r \in Reqs :
        LET q == rq[r]
            m == q.loc.method
            given == q.loc.maybe_epoch
            asked == CallsOfOp(q, m, "query_epoch")
            made == CallsOfOp(q, m, m)
        IN (m \in OptionalEpochMethods /\ q.pc \in {"cm_resolve_epoch", "cm_query", "done"}) =>
            IF IsSome(given)
            THEN /\ Len(asked) = 0
                 /\ \A i \in 1..Len(made) :
                        made[i].arg = given /\ made[i].ev = Unwrap(given)
                 /\ Len(made) = IF q.pc = "done" THEN 1 ELSE 0
            ELSE /\ Len(asked) = IF q.pc = "cm_resolve_epoch" THEN 0 ELSE 1
                 /\ \A i \in 1..Len(made) :
                        /\ asked[1].ok
                        /\ made[i].arg = Some(asked[1].res)
                        /\ made[i].ev = asked[1].res
                 /\ Len(made) = IF q.pc = "done" /\ asked[1].ok THEN 1 ELSE 0

\* the consensus set was asked for with epoch 0 when the chain was at a later
\* epoch: the query was made at epoch 0 and the current epoch was not asked for
C13_Witness ==
    \E r \in Reqs :
        /\ rq[r].pc = "done"
        /\ rq[r].loc.method = "get_consensus_validator_set"
        /\ rq[r].loc.maybe_epoch = Some(0)
        /\ Len(rq[r].calls) = 1
        /\ rq[r].calls[1].op = "get_consensus_validator_set"
        /\ rq[r].calls[1].ev = 0
        /\ rq[r].calls[1].at > 0

\* C14: in a handler that lists validators or delegations, when the query for
\* the current epoch fails the request is answered with a query failure, no
\* query that depends on the epoch is made, and the current epoch is not asked
\* for a second time.
C14_EpochFailureEndsRequest ==
    \A r \in Reqs :
        LET q == rq[r] IN
        (/\ q.path # <<>>
         /\ Len(q.calls) > 0
         /\ q.calls[1].op = "query_epoch"
         /\ ~q.calls[1].ok) =>
            /\ Len(q.calls) = 1
            /\ q.pc = "done" => q.reply.status = 500

\* the queries that are made for an epoch
EpochSensitiveOps == DetailOps \cup {"get_all_validators"}

\* C15: in get_validator_details, get_all_validators and
\* get_validators_details every query of the validator set, of a state, a
\* stake or of metadata is made after the handler's query for the current epoch
\* has succeeded, and it is made with an epoch.
C15_EpochResolvedFirst ==
    \A r \in Reqs :
        \A h \in {"validator_details", "all_validators", "validators_details"} :
            LET cs == CallsOf(rq[r], h) IN
            /\ \A i \in 1..Len(cs) :
                 cs[i].op \in EpochSensitiveOps =>
                    /\ \E j \in 1..(i - 1) : cs[j].op = "query_epoch" /\ cs[j].ok
                    /\ IsSome(cs[i].arg)
            /\ \A j \in 1..Len(cs) :
                 cs[j].op = "query_epoch" =>
                    \A i \in 1..(j - 1) : cs[i].op \notin EpochSensitiveOps

\* get_all_validators returned a list it had asked for after the chain had
\* moved past the epoch it had resolved
C15_Witness ==
    \E r \in Reqs :
        /\ Returned(rq[r], "all_validators")
        /\ Len(rq[r].calls) = 2
        /\ rq[r].calls[1].op = "query_epoch"
        /\ rq[r].calls[2].op = "get_all_validators"
        /\ rq[r].calls[2].at > rq[r].calls[1].at
        /\ rq[r].calls[2].ev = rq[r].calls[1].res

\* the status the error table gives an ApiError of this variant
StatusOfVariant(v) ==
    CASE v \in {"BadRequest", "InvalidAddress", "InvalidPagination",
                "InvalidTendermintAddress"} -> 400
      [] v = "NotFound" -> 404
      [] v \in {"QueryError", "InternalError"} -> 500
      [] v = "RpcConnectionError" -> 503

\* the custom rejections of a recovered request, by position
CustomsOf(q) == {i \in 1..Len(q.rejs) : q.rejs[i].kind = "Custom"}

\* the ApiError the recovery finds: that of the route that rejected last
FoundError(q) == q.rejs[CHOOSE i \in CustomsOf(q) : \A j \in CustomsOf(q) : j <= i].err

\* C16: handle_rejection answers a request no route matched with 404; a
\* rejection holding an ApiError with 400 for BadRequest, InvalidAddress,
\* InvalidPagination and InvalidTendermintAddress, 404 for NotFound, 500 for
\* QueryError and InternalError, 503 for RpcConnectionError; any other
\* rejection with 500; and the message of every ApiError other than
\* BadRequest and NotFound is the details field of the answer.
C16_StatusByErrorClass ==
    \A r \in Reqs :
        LET q == rq[r] IN
        (q.pc = "done" /\ q.rejs # <<>> /\ q.outs = <<>>) =>
            /\ (\A i \in 1..Len(q.rejs) : q.rejs[i].kind = "NotFound")
                   => q.reply.status = 404
            /\ (CustomsOf(q) # {})
                   => /\ q.reply.status = StatusOfVariant(FoundError(q).variant)
                      /\ FoundError(q).variant \notin {"BadRequest", "NotFound"}
                            => q.reply.body.details = Some(FoundError(q).msg)
            /\ (CustomsOf(q) = {}
                  /\ \E i \in 1..Len(q.rejs) : q.rejs[i].kind # "NotFound")
                   => q.reply.status = 500

\* a recovered RpcConnectionError is answered 503 with its message as details
C16_Witness ==
    \E r \in Reqs :
        LET q == rq[r] IN
        /\ q.pc = "done" /\ q.rejs # <<>> /\ q.outs = <<>>
        /\ CustomsOf(q) # {}
        /\ FoundError(q).variant = "RpcConnectionError"
        /\ q.reply.status = 503
        /\ q.reply.body.details = Some(FoundError(q).msg)

\* C17: the RPC health check issues one chain query, the current epoch, and
\* no other; when the query fails the request is answered 500 or 503, never
\* with success; when it succeeds the request is answered 200 with status
\* "ok" and the rpc_url of the client.
C17_RpcHealthOneQuery ==
    \A r \in Reqs :
        LET q == rq[r]
            cs == CallsOf(q, "rpc_health")
        IN /\ Len(cs) <= 1
           /\ \A i \in 1..Len(cs) : cs[i].op = "query_epoch"
           /\ (OutOf(q, "rpc_health") # <<>>) => Len(cs) = 1 /\ q.calls = cs
           /\ (q.pc = "done" /\ Len(cs) = 1 /\ ~cs[1].ok)
                 => /\ q.reply.status \in {500, 503}
                    /\ ~Returned(q, "rpc_health")
           /\ (q.pc = "done" /\ Len(cs) = 1 /\ cs[1].ok)
                 => q.reply = [status |-> 200,
                               body |-> [status |-> "ok",
                                         rpc_url |-> Config_load.rpc_url]]

\* a health check whose query failed has been answered 503, and another
\* whose query succeeded has been answered 200
C17_Witness ==
    \E r, s \in Reqs :
        /\ rq[r].pc = "done" /\ rq[s].pc = "done"
        /\ Len(CallsOf(rq[r], "rpc_health")) = 1
        /\ ~CallsOf(rq[r], "rpc_health")[1].ok
        /\ rq[r].reply.status = 503
        /\ Len(CallsOf(rq[s], "rpc_health")) = 1
        /\ CallsOf(rq[s], "rpc_health")[1].ok
        /\ rq[s].reply.status = 200

\* C18: when a request is cancelled while one of its chain calls is in
\* flight, that call is abandoned, so the node never answers it, and no
\* further chain call is made for the request.
C18_CancelledCallAbandoned ==
    \A r \in Reqs :
        LET q == rq[r] IN
        q.pc = "cancelled" =>
            /\ q.task.detached => q.task.state = "running"
            /\ Len(q.calls) = q.task.calls_before

\* no chain call is begun for a request once it is cancelled
NoCallBegunAfterCancel ==
    \A r \in Reqs :
        LET q == rq[r] IN
        q.pc = "cancelled" =>
            /\ q.task.state = "running" => q.task.detached
            /\ Len(q.calls) <= q.task.calls_before + (IF q.task.detached THEN 1 ELSE 0)

\* what a request asked for
InputOf(q) == <<q.method, q.path, q.qvalid, q.query>>

\* what the chain answered to the calls of a request, in the order made
AnswersOf(q) == [i \in 1..Len(q.calls) |-> <<q.calls[i].op, q.calls[i].ok, q.calls[i].res>>]

\* two requests that asked the same and were answered the same by the chain
\* have got the same response, however their calls were interleaved
SameAnswersSameResponse ==
    \A r, s \in Reqs :
        (/\ rq[r].pc = "done" /\ rq[s].pc = "done"
         /\ InputOf(rq[r]) = InputOf(rq[s])
         /\ AnswersOf(rq[r]) = AnswersOf(rq[s]))
            => rq[r].reply = rq[s].reply

\* a step of the handling of one request leaves the shared state and the
\* other requests as they are
HandlingIsPrivate ==
    /\ app_state' = app_state
    /\ \A r \in Reqs :
         rq'[r] # rq[r] => \A s \in Reqs \ {r} : rq'[s] = rq[s]

\* C19: concurrent requests do not interfere: no step of a handler changes
\* the shared AppState or its client, a step changes the handling of one
\* request only, and the response of a request is determined by what it
\* asked and what the chain answered to its own calls.
C19_NoInterference ==
    /\ [](/\ app_state = AppState(NamadaClient_new(Config_load.rpc_url))
          /\ SameAnswersSameResponse)
    /\ [][HandlingIsPrivate]_vars

\* two listings in flight together: the first call of one was made before
\* the last call of the other, and both have been answered by the chain
C19_Witness ==
    \E r, s \in Reqs :
        /\ r # s
        /\ rq[r].pc = "done" /\ rq[r].reply.status = 200
        /\ Len(CallsOf(rq[r], "all_validators")) = 2
        /\ CallsOf(rq[r], "all_validators")[1].at = 0
        /\ CallsOf(rq[r], "all_validators")[2].at = 1
        /\ rq[s].pc = "av_get_all_validators"
        /\ Len(CallsOf(rq[s], "all_validators")) = 1
        /\ CallsOf(rq[s], "all_validators")[1].at = 0

\* C20: the pagination block of a successful get_validators_details response
\* holds the number of addresses fetched as total, the effective page and
\* per_page of the request (1 and 10 when absent), and as total_pages the
\* quotient total / per_page rounded up, which is 0 for total = 0; per_page
\* lies in 1..50.
C20_PaginationBlock ==
    \A r \in Reqs :
        LET q == rq[r] IN
        Returned(q, "validators_details") =>
            LET total == Len(Fetched(q)[1].res)
                block == q.reply.body.pagination
            IN /\ PerPageOf(q) \in 1..MaxPerPage
               /\ block.total = total
               /\ block.page = PageOf(q)
               /\ block.per_page = PerPageOf(q)
               /\ block.total_pages = CeilDiv(total, PerPageOf(q))
               /\ total = 0 => block.total_pages = 0

\* a page of 3 addresses in pages of 2 reported 2 pages, a request without
\* parameters would report page 1 of pages of 10
C20_Witness ==
    \E r \in Reqs :
        /\ Returned(rq[r], "validators_details")
        /\ rq[r].query = ValidatorsQuery(None, Some(2))
        /\ rq[r].reply.body.pagination =
              [total |-> 3, page |-> 1, per_page |-> 2, total_pages |-> 2]

\* no validators at all: page 1 is answered with total 0 and 0 pages in the
\* default pages of 10
EmptySetReportsNoPages ==
    \E r \in Reqs :
        /\ Returned(rq[r], "validators_details")
        /\ rq[r].query = ValidatorsQuery(None, None)
        /\ rq[r].reply.body.pagination =
              [total |-> 0, page |-> 1, per_page |-> 10, total_pages |-> 0]

\* the CommissionPair the last metadata query of request q returned
CommissionRead(q) ==
    LET ms == SelectSeq(q.calls, LAMBDA c : c.op = "query_metadata" /\ c.ok)
    IN ms[Len(ms)].res[2]

\* the decimal text of a part of a CommissionPair, "0" when the part is absent
RenderedOrZero(part) == IF part = None THEN "0" ELSE part[1]

\* C21: every ValidatorDetail that is returned renders an absent commission
\* rate and an absent max-commission-change-per-epoch as "0" and a present
\* one as its decimal text, at every call site that builds one.
C21_AbsentCommissionIsZero ==
    \A r \in Reqs :
        LET q == rq[r] IN
        (/\ q.pc = "done" /\ q.reply.status = 200
         /\ Len(q.path) = 4 /\ SubSeq(q.path, 1, 3) = <<"api", "pos", "validators">>) =>
            /\ q.reply.body.commission_rate
                  = RenderedOrZero(CommissionRead(q).commission_rate)
            /\ q.reply.body.max_commission_change_per_epoch
                  = RenderedOrZero(CommissionRead(q).max_commission_change_per_epoch)

\* C24: in the axum route of one validator the stake query and the metadata
\* and commission query are evaluated at the epoch the state query was
\* evaluated at, also when the chain advances between the queries.
C24_AxumRecordAtOneEpoch ==
    \A r \in Reqs :
        LET cs == CallsOf(rq[r], "axum_validator_detail")
            st == SelectSeq(cs, LAMBDA c : c.op = "get_validator_state")
        IN \A i \in 1..Len(cs) :
            cs[i].op \in {"get_validator_stake", "query_metadata"} =>
                /\ Len(st) = 1
                /\ cs[i].ev = st[1].ev

\* the stake query of the axum route alone is evaluated at the epoch of the
\* state query
AxumStakeAtStateEpoch ==
    \A r \in Reqs :
        LET cs == CallsOf(rq[r], "axum_validator_detail")
            st == SelectSeq(cs, LAMBDA c : c.op = "get_validator_state")
        IN \A i \in 1..Len(cs) :
            cs[i].op = "get_validator_stake" => Len(st) = 1 /\ cs[i].ev = st[1].ev

\* the record get_validator_details returns for address a when the chain is
\* read at epoch e
SingleRecordAt(a, e) ==
    ValidatorDetailsResponse(a, ChainState(a, e), ChainStake(a, e),
                             ChainMetadata(a, e), ChainCommission(a, e))

\* C22: every address on a returned page of get_validators_details has gone
\* through the steps of a single lookup, the membership gate included: the
\* handler asked is_validator for it and was answered true, and its record
\* is the one get_validator_details returns for it at the page's epoch.
C22_PageItemsPassTheGate ==
    \A r \in Reqs :
        LET q == rq[r] IN
        Returned(q, "validators_details") =>
            LET gate == CallsOfOp(q, "validators_details", "is_validator")
                page == q.reply.body.validators
            IN \A i \in 1..Len(page) :
                /\ \E g \in 1..Len(gate) :
                     gate[g].addr = page[i].address /\ gate[g].ok /\ gate[g].res
                /\ page[i] = SingleRecordAt(page[i].address, EpochOf(q))

\* the record of every item on a returned page is the one a single lookup
\* returns for the address at the page's epoch
PageRecordIsSingleRecord ==
    \A r \in Reqs :
        LET q == rq[r] IN
        Returned(q, "validators_details") =>
            \A i \in 1..Len(q.reply.body.validators) :
                q.reply.body.validators[i]
                    = SingleRecordAt(q.reply.body.validators[i].address, EpochOf(q))

\* every address on a returned page is one is_validator holds of when the
\* page is returned
PageItemsAreValidatorsNow ==
    \A r \in Reqs :
        LET q == rq[r] IN
        Returned(q, "validators_details") =>
            \A i \in 1..Len(q.reply.body.validators) :
                client_is_validator(q.reply.body.validators[i].address)

\* C23: for a well-formed consensus address get_validator_by_tm_addr makes
\* one chain query, validator_by_tm_addr, and answers by its outcome alone:
\* the address the node reported in a 200 body, NotFound (404) when the node
\* reported none, QueryError (500) with the client's error text when the
\* query failed; no other address is ever returned.
C23_LookupMapsOneToOne ==
    \A r \in Reqs :
        LET q == rq[r]
            cs == CallsOf(q, "validator_by_tm")
            out == OutOf(q, "validator_by_tm")
        IN (OnPath(q, <<"api", "pos", "validator_by_tm_addr">>)
              /\ Len(q.path) = 4 /\ MatchesHex40(q.path[4]) /\ out # <<>>) =>
            /\ Len(out) = 1
            /\ Len(cs) = 1 /\ q.calls = cs
            /\ cs[1].op = "validator_by_tm_addr"
            /\ (cs[1].ok /\ cs[1].res # None) =>
                 /\ out[1].ok
                 /\ out[1].reply = [status |-> 200,
                                    body |-> [address |-> cs[1].res[1]]]
                 /\ q.reply = out[1].reply
            /\ (cs[1].ok /\ cs[1].res = None) =>
                 /\ ~out[1].ok /\ out[1].err.variant = "NotFound"
                 /\ q.pc = "done" => q.reply.status = 404
            /\ ~cs[1].ok =>
                 /\ ~out[1].ok /\ out[1].err.variant = "QueryError"
                 /\ out[1].err.msg.args = <<ClientErrorText("validator_by_tm_addr")>>
                 /\ q.pc = "done" =>
                      /\ q.reply.status = 500
                      /\ q.reply.body.details = Some(out[1].err.msg)

\* the address of a validator's consensus key was found and returned
C23_Witness ==
    \E r \in Reqs : \E a \in Addrs :
        /\ rq[r].pc = "done"
        /\ rq[r].path = <<"api", "pos", "validator_by_tm_addr", TmOf(a)>>
        /\ Len(rq[r].calls) = 1 /\ rq[r].calls[1].ok
        /\ rq[r].reply = [status |-> 200, body |-> [address |-> a]]

\* C25: a request is handled by at most one handler of the route table: once
\* a handler has rejected with an ApiError no handler of another route runs,
\* and a request for /api/pos/validators/{address} is never answered by
\* get_all_validators.
C25_DispatchIsExclusive ==
    \A r \in Reqs :
        LET q == rq[r] IN
        /\ Len(q.outs) <= 1
        /\ \A i \in 1..Len(q.outs) :
             ~q.outs[i].ok => q.pc \in {"route", "done"} /\ q.calls = CallsOf(q, q.outs[i].h)
        /\ (OnPath(q, <<"api", "pos", "validators">>) /\ Len(q.path) = 4) =>
             /\ ~Returned(q, "all_validators")
             /\ CallsOf(q, "all_validators") = <<>>

\* C26: every request that get_validators_details does not reject for its
\* pagination, one against an empty validator set with any page >= 1 included,
\* has slice bounds start <= end, so end - start does not underflow and the
\* handler does not panic; against an empty set it returns an empty list.
C26_SliceBoundsOrdered ==
    \A r \in Reqs :
        LET q == rq[r]
            fetched == Fetched(q)
        IN (/\ Len(fetched) = 1
            /\ fetched[1].ok
            /\ ~Failed(q, "validators_details", "InvalidPagination")) =>
            LET total == Len(fetched[1].res)
                start == vsd_start(PageOf(q), PerPageOf(q))
                end == vsd_end(start, PerPageOf(q), total)
            IN /\ start <= end
               /\ q.pc # "panicked"
               /\ (Returned(q, "validators_details") /\ total = 0) =>
                      q.reply.body.validators = <<>>

\* the part of C26 that holds: a request for a page of an empty validator set
\* that is answered is answered with an empty list
EmptySetGivesEmptyPage ==
    \A r \in Reqs :
        LET q == rq[r] IN
        (Returned(q, "validators_details") /\ Len(Fetched(q)[1].res) = 0) =>
            q.reply.body.validators = <<>>

\* a * b lies within u32: a <= (2^32 - 1) \div b, the quotient formed from
\* 2^31 - 1 = 2147483647
FitsU32(a, b) ==
    a <= (2 * (2147483647 \div b)) + (((2 * (2147483647 % b)) + 1) \div b)

\* C27: for every page and per_page that get_validators_details does not
\* reject, the u32 product (page - 1) * per_page does not overflow, and the
\* value used as start equals the mathematical product.
C27_StartProductFits ==
    \A r \in Reqs :
        LET q == rq[r]
            fetched == Fetched(q)
        IN (/\ Len(fetched) = 1
            /\ fetched[1].ok
            /\ ~Failed(q, "validators_details", "InvalidPagination")) =>
            /\ FitsU32(PageOf(q) - 1, PerPageOf(q))
            /\ vsd_start(PageOf(q), PerPageOf(q)) = (PageOf(q) - 1) * PerPageOf(q)

\* the part of C27 that holds: when the fetched collection is not empty, the
\* product of every page that is not rejected fits, and start is that product
AcceptedPageOfNonEmptySetFits ==
    \A r \in Reqs :
        LET q == rq[r]
            fetched == Fetched(q)
        IN (/\ Len(fetched) = 1
            /\ fetched[1].ok
            /\ Len(fetched[1].res) > 0
            /\ ~Failed(q, "validators_details", "InvalidPagination")) =>
            /\ FitsU32(PageOf(q) - 1, PerPageOf(q))
            /\ vsd_start(PageOf(q), PerPageOf(q)) = (PageOf(q) - 1) * PerPageOf(q)

\* C28: a get_validators_details request that returns k items has made 2 + 3k
\* chain calls, k <= 50: one query_epoch, one get_all_validators and then, item
\* by item in page order, one get_validator_state, one get_validator_stake and
\* one query_metadata for the item's address; the addresses asked about are
\* those of the requested page of the fetched collection and no other.
C28_TwoPlusThreeCallsPerItem ==
    \A r \in Reqs :
        LET q == rq[r] IN
        Returned(q, "validators_details") =>
            LET cs == q.calls
                items == RepliedAddresses(q)
                k == Len(items)
                fetched == cs[2].res
                first == (PageOf(q) - 1) * PerPageOf(q)
            IN /\ k <= 50
               /\ k <= PerPageOf(q)
               /\ Len(cs) = 2 + 3 * k
               /\ cs[1].op = "query_epoch" /\ cs[2].op = "get_all_validators"
               /\ \A j \in 1..k :
                    /\ first + j <= Len(fetched)
                    /\ items[j] = fetched[first + j]
                    /\ cs[3 * j].op = "get_validator_state"
                    /\ cs[3 * j + 1].op = "get_validator_stake"
                    /\ cs[3 * j + 2].op = "query_metadata"
                    /\ cs[3 * j].addr = items[j]
                    /\ cs[3 * j + 1].addr = items[j]
                    /\ cs[3 * j + 2].addr = items[j]

\* the second page of three addresses in pages of two was returned: one item,
\* five chain calls, none about the two addresses of the first page
C28_Witness ==
    \E r \in Reqs :
        /\ Returned(rq[r], "validators_details")
        /\ rq[r].query = ValidatorsQuery(Some(2), Some(2))
        /\ Len(rq[r].calls) = 5
        /\ Len(rq[r].calls[2].res) = 3
        /\ rq[r].calls[3].addr = rq[r].calls[2].res[3]
        /\ rq[r].calls[5].op = "query_metadata"
        /\ Len(rq[r].reply.body.validators) = 1

\* C29: whenever get_validator_details has returned a record, the address was
\* in the validator set at the epoch its state, stake and metadata queries were
\* evaluated at, also when the chain's epoch and validator set changed between
\* the is_validator query and the query_epoch query.
C29_RecordOfMemberAtReadEpoch ==
    \A r \in Reqs :
        LET q == rq[r]
            reads == SelectSeq(q.calls, LAMBDA c : c.h = "validator_details"
                                                    /\ c.op \in DetailOps)
        IN Returned(q, "validator_details") =>
            \A i \in 1..Len(reads) : reads[i].addr \in chainVals[reads[i].ev]

\* the part of C29 that holds: the address of a returned record was in the
\* validator set of the epoch that was current when is_validator was asked
RecordOfMemberAtGateEpoch ==
    \A r \in Reqs :
        LET q == rq[r]
            iv == CallsOfOp(q, "validator_details", "is_validator")
        IN Returned(q, "validator_details") =>
            /\ Len(iv) = 1
            /\ iv[1].res = TRUE
            /\ iv[1].addr \in chainVals[iv[1].at]

\* C30: when every Chain Query Service call returns, every received request is
\* eventually answered with a response, a success body or an error.
C30_EveryRequestAnswered ==
    \A r \in Reqs :
        (rq[r].pc # "idle") ~> (rq[r].pc = "done" /\ rq[r].reply.status # 0)

\* the part of C30 that holds: every received request is eventually answered,
\* or its handler has panicked on an arithmetic overflow
AnsweredUnlessPanicked ==
    \A r \in Reqs :
        (rq[r].pc # "idle")
            ~> (\/ rq[r].pc = "done" /\ rq[r].reply.status # 0
                \/ rq[r].pc = "panicked")

\* every answered request has made a bounded number of chain calls: at most
\* two and three per address for the page, and two more for a handler the
\* route table falls through to
CallsAreBounded ==
    \A r \in Reqs : Len(rq[r].calls) <= 2 + 3 * NumAddrs + 2

====
